---- MODULE Spec2Model ----
(***************************************************************************)
(* Token / session lifecycle of the authentication service.                *)
(*                                                                         *)
(*   auth-service/app/services/token_service.py   TokenService             *)
(*   auth-service/app/services/auth_service.py    AuthService              *)
(*   auth-service/app/routes/auth.py              HTTP handlers            *)
(*   auth-service/app/models/user.py              User, RefreshToken rows   *)
(*                                                                         *)
(* The store is the two tables.  Time is a clock in ticks; datetime keeps  *)
(* sub-second precision, so one second is TicksPerSecond ticks.            *)
(***************************************************************************)
EXTENDS Integers, FiniteSets, Sequences, TLC

VARIABLES
    users,            \* table "users": id -> row
    next_user_id,     \* the serial sequence behind users.id
    refresh_tokens,   \* table "refresh_tokens": set of rows
    now,              \* datetime.utcnow(), in ticks
    client,           \* the credentials a client holds
    response,         \* what the last call returned to its caller
    calls             \* the service calls concurrent requests are in

vars == <<users, next_user_id, refresh_tokens, now, client, response, calls>>

(***************************************************************************)
(* Bounds of the model.                                                    *)
(***************************************************************************)
MaxSecrets == 1       \* distinct values secrets.token_urlsafe can return
MaxUsers == 1         \* user ids the serial sequence hands out
MaxEarly == 0         \* instants the clock visits right after time 0
MaxMint == 1          \* latest instant at which the codec mints a token
TicksPerSecond == 2   \* sub-second instants kept per second
MaxCallers == 2       \* requests served at the same time
MaxLen == 2           \* pieces in a URL a client sends as query parameter
MaxIds == 2           \* ids the users sequence hands out to concurrent writers

(***************************************************************************)
(* Settings (config.py).                                                   *)
(***************************************************************************)
jwt_access_token_expire_minutes == 30
jwt_refresh_token_expire_days == 7
jwt_secret_key == "your-super-secret-jwt-key-change-this"
api_token == "changeme"

\* Python's None.
None == [none |-> TRUE]

\* A string where the value can also be None.
Str(v) == [str |-> v]

\* timedelta(minutes=m), timedelta(days=d) in ticks.
timedelta_minutes(m) == m * 60 * TicksPerSecond
timedelta_days(d) == d * 86400 * TicksPerSecond

AccessLifetime == timedelta_minutes(jwt_access_token_expire_minutes)
RefreshLifetime == timedelta_days(jwt_refresh_token_expire_days)

(***************************************************************************)
(* Strings presented as refresh tokens.  A raw secret is the text          *)
(* token_urlsafe returned; a presented string may also be empty (core 0), *)
(* carry surrounding whitespace (pad), or be a well-formed string that no  *)
(* call of token_urlsafe returned (core MaxSecrets + 1).                   *)
(***************************************************************************)
Secrets == 1..MaxSecrets
token_urlsafe(s) == [core |-> s, pad |-> FALSE]
Strings ==
    {token_urlsafe(s) : s \in Secrets}
        \cup {[core |-> 1, pad |-> TRUE], [core |-> 0, pad |-> FALSE],
              [core |-> MaxSecrets + 1, pad |-> FALSE]}
strip(v) == [core |-> v.core, pad |-> FALSE]

\* str(user.id) for the ids the model hands out.
str(n) == <<"1", "2", "3", "4", "5", "6", "7", "8", "9">>[n]

(***************************************************************************)
(* TokenService (token_service.py).                                        *)
(*                                                                         *)
(* jwt.encode / jwt.decode are python-jose's.  A token is its claims plus  *)
(* a signature naming the key and the claims that were signed; anything    *)
(* that does not split into header.claims.signature is "garbage".  The     *)
(* "exp" claim is a JWT NumericDate: encode turns the datetime into whole  *)
(* seconds (timegm(utctimetuple())), and decode rejects exp < now, both    *)
(* in whole seconds.                                                       *)
(***************************************************************************)
utc_seconds(t) == t \div TicksPerSecond

sign(key, claims) == [key |-> key, claims |-> claims]

jwt_encode(claims, key) ==
    LET converted == [k \in DOMAIN claims |->
                        IF k = "exp" THEN utc_seconds(claims[k]) ELSE claims[k]]
    IN  [form |-> "jwt", claims |-> converted, sig |-> sign(key, converted)]

\* jwt.encode of claims whose exp is a number already.
jwt_encode_plain(claims, key) ==
    [form |-> "jwt", claims |-> claims, sig |-> sign(key, claims)]

\* The exception classes jose raises; all derive from JWTError.
JWTErrors == {"JWTError", "ExpiredSignatureError", "JWTClaimsError"}

jwt_decode(token, key, t) ==
    IF token.form # "jwt"
      THEN [ok |-> FALSE, raised |-> "JWTError"]
    ELSE IF token.sig # sign(key, token.claims)
      THEN [ok |-> FALSE, raised |-> "JWTError"]
    ELSE IF "exp" \in DOMAIN token.claims /\ token.claims.exp < utc_seconds(t)
      THEN [ok |-> FALSE, raised |-> "ExpiredSignatureError"]
    ELSE [ok |-> TRUE, claims |-> token.claims]

\* Mutant: the lifetime is taken in hours instead of minutes.
create_access_token_hours(data, t) ==
    LET expire == t + 60 * timedelta_minutes(jwt_access_token_expire_minutes)
        to_encode == [k \in DOMAIN data \cup {"exp", "type"} |->
                        IF k = "exp" THEN expire
                        ELSE IF k = "type" THEN "access"
                        ELSE data[k]]
    IN  jwt_encode(to_encode, jwt_secret_key)

\* Mutant: the caller's claims are applied after exp and type, not before.
create_access_token_caller_wins(data, t) ==
    LET expire == t + timedelta_minutes(jwt_access_token_expire_minutes)
        to_encode == [k \in DOMAIN data \cup {"exp", "type"} |->
                        IF k \in DOMAIN data THEN data[k]
                        ELSE IF k = "exp" THEN expire
                        ELSE "access"]
    IN  jwt_encode(to_encode, jwt_secret_key)

create_access_token(data, t) ==
    LET expire == t + timedelta_minutes(jwt_access_token_expire_minutes)
        to_encode == [k \in DOMAIN data \cup {"exp", "type"} |->
                        IF k = "exp" THEN expire
                        ELSE IF k = "type" THEN "access"
                        ELSE data[k]]
    IN  jwt_encode(to_encode, jwt_secret_key)

create_refresh_token(s) == token_urlsafe(s)

\* Mutant: no except clause, what jwt.decode raises escapes the call.
verify_access_token_uncaught(token, t) ==
    LET d == jwt_decode(token, jwt_secret_key, t)
    IN  IF ~d.ok
          THEN [raised |-> d.raised]
        ELSE IF ~("type" \in DOMAIN d.claims /\ d.claims.type = "access")
          THEN None
        ELSE d.claims

\* Mutant: the subject is looked up in users and must be an active row.
verify_access_token_checks_user(token, t) ==
    LET d == jwt_decode(token, jwt_secret_key, t)
    IN  IF ~d.ok
          THEN IF d.raised \in JWTErrors THEN None ELSE [raised |-> d.raised]
        ELSE IF ~("type" \in DOMAIN d.claims /\ d.claims.type = "access")
          THEN None
        ELSE IF \E i \in DOMAIN users :
                    str(i) = d.claims.sub /\ users[i].is_active
          THEN d.claims
        ELSE None

\* The result is the payload, None, or an exception that escapes the call.
verify_access_token(token, t) ==
    LET d == jwt_decode(token, jwt_secret_key, t)
    IN  IF ~d.ok
          THEN IF d.raised \in JWTErrors THEN None ELSE [raised |-> d.raised]
        ELSE IF ~("type" \in DOMAIN d.claims /\ d.claims.type = "access")
          THEN None
        ELSE d.claims

\* sha256(token).hexdigest(): one-way and collision free on the strings used.
\* Mutant: the token is stored as it is.
hash_refresh_token_plain(token) == token

hash_refresh_token(token) == [sha256 |-> token]

(***************************************************************************)
(* AuthService (auth_service.py).  Each operator takes the tables it reads *)
(* and returns the tables it commits together with what it returns.        *)
(***************************************************************************)
access_claims(user) ==
    [sub |-> str(user.id), email |-> user.email, username |-> user.username,
     is_admin |-> user.is_admin, permissions |-> user.permissions]

expires_in == jwt_access_token_expire_minutes * 60

\* Mutant: the stored expiry is the issue time, the lifetime is not added.
create_tokens_no_lifetime(db_tokens, user, s, t) ==
    LET access_token == create_access_token(access_claims(user), t)
        refresh_token == create_refresh_token(s)
        refresh_token_hash == hash_refresh_token(refresh_token)
        db_refresh_token ==
            [user_id |-> user.id, token_hash |-> refresh_token_hash,
             expires_at |-> t, created_at |-> t, is_revoked |-> FALSE]
    IN  IF \E r \in db_tokens : r.token_hash = refresh_token_hash
          THEN [raised |-> "IntegrityError", refresh_tokens |-> db_tokens,
                ret |-> None]
          ELSE [raised |-> "", refresh_tokens |-> db_tokens \cup {db_refresh_token},
                ret |-> [access_token |-> access_token,
                         refresh_token |-> refresh_token,
                         token_type |-> "bearer", expires_in |-> expires_in]]

\* Mutant: the failure of the commit is swallowed, the pair is handed out.
create_tokens_swallows(db_tokens, user, s, t) ==
    LET access_token == create_access_token(access_claims(user), t)
        refresh_token == create_refresh_token(s)
        refresh_token_hash == hash_refresh_token(refresh_token)
        db_refresh_token ==
            [user_id |-> user.id, token_hash |-> refresh_token_hash,
             expires_at |-> t + timedelta_days(jwt_refresh_token_expire_days),
             created_at |-> t, is_revoked |-> FALSE]
        ret == [access_token |-> access_token,
                refresh_token |-> refresh_token,
                token_type |-> "bearer", expires_in |-> expires_in]
    IN  IF \E r \in db_tokens : r.token_hash = refresh_token_hash
          THEN [raised |-> "", refresh_tokens |-> db_tokens, ret |-> ret]
          ELSE [raised |-> "", refresh_tokens |-> db_tokens \cup {db_refresh_token},
                ret |-> ret]

\* db.commit() of the new row fails on the unique token_hash column.
create_tokens(db_tokens, user, s, t) ==
    LET access_token == create_access_token(access_claims(user), t)
        refresh_token == create_refresh_token(s)
        refresh_token_hash == hash_refresh_token(refresh_token)
        db_refresh_token ==
            [user_id |-> user.id, token_hash |-> refresh_token_hash,
             expires_at |-> t + timedelta_days(jwt_refresh_token_expire_days),
             created_at |-> t, is_revoked |-> FALSE]
    IN  IF \E r \in db_tokens : r.token_hash = refresh_token_hash
          THEN [raised |-> "IntegrityError", refresh_tokens |-> db_tokens,
                ret |-> None]
          ELSE [raised |-> "", refresh_tokens |-> db_tokens \cup {db_refresh_token},
                ret |-> [access_token |-> access_token,
                         refresh_token |-> refresh_token,
                         token_type |-> "bearer", expires_in |-> expires_in]]

\* Mutant: the lookup leaves the is_revoked filter out.
refresh_access_token_any_flag(db_tokens, db_users, refresh_token, t) ==
    LET token_hash == hash_refresh_token(refresh_token)
        found == {r \in db_tokens : /\ r.token_hash = token_hash
                                    /\ r.expires_at > t}
    IN  IF found = {} THEN None
        ELSE LET db_token == CHOOSE r \in found : TRUE
             IN  IF \/ db_token.user_id \notin DOMAIN db_users
                    \/ ~db_users[db_token.user_id].is_active
                   THEN None
                   ELSE [access_token |->
                            create_access_token(
                                access_claims(db_users[db_token.user_id]), t),
                         token_type |-> "bearer", expires_in |-> expires_in]

\* Mutant: is_admin is not read from the user row, it gets the column default.
refresh_access_token_default_admin(db_tokens, db_users, refresh_token, t) ==
    LET token_hash == hash_refresh_token(refresh_token)
        found == {r \in db_tokens : /\ r.token_hash = token_hash
                                    /\ r.is_revoked = FALSE
                                    /\ r.expires_at > t}
    IN  IF found = {} THEN None
        ELSE LET db_token == CHOOSE r \in found : TRUE
             IN  IF \/ db_token.user_id \notin DOMAIN db_users
                    \/ ~db_users[db_token.user_id].is_active
                   THEN None
                   ELSE [access_token |->
                            create_access_token(
                                [access_claims(db_users[db_token.user_id])
                                   EXCEPT !.is_admin = FALSE], t),
                         token_type |-> "bearer", expires_in |-> expires_in]

\* Mutant: the user row is only looked up, its is_active flag is not read.
refresh_access_token_skips_active(db_tokens, db_users, refresh_token, t) ==
    LET token_hash == hash_refresh_token(refresh_token)
        found == {r \in db_tokens : /\ r.token_hash = token_hash
                                    /\ r.is_revoked = FALSE
                                    /\ r.expires_at > t}
    IN  IF found = {} THEN None
        ELSE LET db_token == CHOOSE r \in found : TRUE
             IN  IF db_token.user_id \notin DOMAIN db_users
                   THEN None
                   ELSE [access_token |->
                            create_access_token(
                                access_claims(db_users[db_token.user_id]), t),
                         token_type |-> "bearer", expires_in |-> expires_in]

refresh_access_token(db_tokens, db_users, refresh_token, t) ==
    LET token_hash == hash_refresh_token(refresh_token)
        found == {r \in db_tokens : /\ r.token_hash = token_hash
                                    /\ r.is_revoked = FALSE
                                    /\ r.expires_at > t}
    IN  IF found = {} THEN None
        ELSE LET db_token == CHOOSE r \in found : TRUE
             IN  IF \/ db_token.user_id \notin DOMAIN db_users
                    \/ ~db_users[db_token.user_id].is_active
                   THEN None
                   ELSE [access_token |->
                            create_access_token(
                                access_claims(db_users[db_token.user_id]), t),
                         token_type |-> "bearer", expires_in |-> expires_in]

\* Mutant: every session of the token's owner is revoked with it.
revoke_refresh_token_all_sessions(db_tokens, refresh_token) ==
    LET token_hash == hash_refresh_token(refresh_token)
        found == {r \in db_tokens : r.token_hash = token_hash}
    IN  IF found # {}
          THEN LET db_token == CHOOSE r \in found : TRUE
               IN  [refresh_tokens |->
                        {IF r.user_id = db_token.user_id
                           THEN [r EXCEPT !.is_revoked = TRUE] ELSE r :
                         r \in db_tokens},
                    ret |-> TRUE]
          ELSE [refresh_tokens |-> db_tokens, ret |-> FALSE]

revoke_refresh_token(db_tokens, refresh_token) ==
    LET token_hash == hash_refresh_token(refresh_token)
        found == {r \in db_tokens : r.token_hash = token_hash}
    IN  IF found # {}
          THEN LET db_token == CHOOSE r \in found : TRUE
               IN  [refresh_tokens |->
                        (db_tokens \ {db_token})
                            \cup {[db_token EXCEPT !.is_revoked = TRUE]},
                    ret |-> TRUE]
          ELSE [refresh_tokens |-> db_tokens, ret |-> FALSE]

(***************************************************************************)
(* Requests served concurrently, each with a database session of its own.  *)
(* A call is idle, or at the statement it executes next, or done.          *)
(***************************************************************************)
Callers == 1..MaxCallers
Idle == [op |-> "idle"]

(***************************************************************************)
(* Rows of the users table and the profiles requests carry.                *)
(***************************************************************************)
NoServices == [services |-> <<>>]
AllServices == [services |-> <<"*">>]
Profiles ==
    { [email |-> "a@x", username |-> "a", provider |-> "github", provider_id |-> "1"],
      [email |-> "b@x", username |-> "b", provider |-> "google", provider_id |-> "2"] }

\* Authorization headers: none, the configured API token, something else.
NoHeader == [form |-> "none"]
Garbage == [form |-> "garbage"]
ApiBearers == {"changeme", "wrong"}

\* What the code exchange with GitHub can yield, and where the state
\* parameter can send the end user.
OAuthResults == {None} \cup {p \in Profiles : p.provider = "github"}

\* State parameters a callback can arrive with: the one login built for a
\* client application, one with no separator and one with too few fields.
AppRedirect ==
    <<"https", ":", "//app.example/done", "?", "success=true", "&", "tab=1">>
CallbackStates ==
    { <<"nonce", "|">> \o <<"http", ":", "//localhost", ":", "8008",
                            "/callback/", "github", "|">>
                      \o AppRedirect \o <<"|", "github">>,
      <<"invalid">>,
      <<"nonce", "|", "x">> }

\* The instants the clock visits: around time 0 and around the expiry of
\* refresh credentials issued then.
Instants ==
    (0..MaxEarly) \cup {RefreshLifetime + k : k \in (-1)..(MaxEarly + 1)}

\* The access tokens a client can present as its bearer: the one of its
\* bearer pair and the one the last refresh returned.
HandedToken ==
    (IF client # None THEN {client.access_token} ELSE {})
    \cup (IF response.op = "POST /refresh" /\ response.body # None
            THEN {response.body.access_token} ELSE {})

Init ==
    /\ users = <<>>
    /\ next_user_id = 1
    /\ refresh_tokens = {}
    /\ now = 0
    /\ client = None
    /\ response = [op |-> "init"]
    /\ calls = [c \in Callers |-> Idle]

(***************************************************************************)
(* Direct calls of the AuthService methods.                                *)
(***************************************************************************)
\* Sessions are established at the early instants only (a bound of the
\* model: it keeps the set of expiry times small).  keep: the caller is a
\* client that holds on to the bearer pair it is handed.
CreateTokens(id, s, keep) ==
    /\ id \in DOMAIN users
    /\ now <= MaxEarly
    /\ LET r == create_tokens(refresh_tokens, users[id], s, now)
       IN  /\ refresh_tokens' = r.refresh_tokens
           /\ response' = [op |-> "create_tokens", arg |-> id,
                           raised |-> r.raised, body |-> r.ret]
           /\ client' = IF keep /\ r.raised = "" THEN r.ret ELSE client
    /\ UNCHANGED <<users, next_user_id, now, calls>>

RefreshAccessToken(v) ==
    /\ response' = [op |-> "refresh_access_token", arg |-> v,
                    body |-> refresh_access_token(refresh_tokens, users, v, now)]
    /\ UNCHANGED <<users, next_user_id, refresh_tokens, now, client, calls>>

RevokeRefreshToken(v) ==
    /\ LET r == revoke_refresh_token(refresh_tokens, v)
       IN  /\ refresh_tokens' = r.refresh_tokens
           /\ response' = [op |-> "revoke_refresh_token", arg |-> v, ret |-> r.ret]
    /\ UNCHANGED <<users, next_user_id, now, client, calls>>

(***************************************************************************)
(* Middleware dependencies (app/middleware/auth_middleware.py).            *)
(***************************************************************************)
verify_api_token(bearer) == bearer = api_token

\* The user the bearer token stands for, or the 401 the dependency raises.
get_current_user(db_users, bearer, t) ==
    IF bearer = NoHeader THEN [status |-> 401, detail |-> "Not authenticated"]
    ELSE LET payload == verify_access_token(bearer, t)
         IN  IF payload = None
               THEN [status |-> 401, detail |-> "Invalid authentication credentials"]
             ELSE IF "sub" \notin DOMAIN payload
               THEN [status |-> 401, detail |-> "Invalid token payload"]
             ELSE LET found == {i \in DOMAIN db_users : str(i) = payload.sub}
                  IN  IF found = {} \/ \E i \in found : ~db_users[i].is_active
                        THEN [status |-> 401, detail |-> "User not found or inactive"]
                        ELSE [status |-> 200, user |-> CHOOSE i \in found : TRUE]

(***************************************************************************)
(* Routes (routes/auth.py).                                                *)
(***************************************************************************)
\* RefreshTokenRequest.validate_refresh_token
validate_refresh_token(v) ==
    IF v.core = 0 THEN [ok |-> FALSE] ELSE [ok |-> TRUE, value |-> strip(v)]

\* Mutant: a string no record matches gets a detail of its own.
refresh_token_response_tells(db_tokens, db_users, v, t) ==
    LET req == validate_refresh_token(v)
    IN  IF ~req.ok
          THEN [op |-> "POST /refresh", arg |-> v, status |-> 422,
                detail |-> "validation error", body |-> None]
          ELSE LET result == refresh_access_token(db_tokens, db_users,
                                                  req.value, t)
                   known == \E r \in db_tokens :
                               r.token_hash = hash_refresh_token(req.value)
               IN  IF result = None
                     THEN [op |-> "POST /refresh", arg |-> v, status |-> 401,
                           detail |-> IF known
                                        THEN "Invalid or expired refresh token"
                                        ELSE "Unknown refresh token",
                           body |-> None]
                     ELSE [op |-> "POST /refresh", arg |-> v, status |-> 200,
                           detail |-> "", body |-> result]

\* POST /refresh: the response of the handler.
refresh_token_response(db_tokens, db_users, v, t) ==
    LET req == validate_refresh_token(v)
    IN  IF ~req.ok
          THEN [op |-> "POST /refresh", arg |-> v, status |-> 422,
                detail |-> "validation error", body |-> None]
          ELSE LET result == refresh_access_token(db_tokens, db_users,
                                                  req.value, t)
               IN  IF result = None
                     THEN [op |-> "POST /refresh", arg |-> v, status |-> 401,
                           detail |-> "Invalid or expired refresh token",
                           body |-> None]
                     ELSE [op |-> "POST /refresh", arg |-> v, status |-> 200,
                           detail |-> "", body |-> result]

refresh_token(v) ==
    /\ response' = refresh_token_response(refresh_tokens, users, v, now)
    /\ UNCHANGED <<users, next_user_id, refresh_tokens, now, client, calls>>

\* POST /logout: the handler takes the current user and nothing else; a
\* request body, such as {refresh_token}, is not read.
logout(bearer, v) ==
    /\ LET current_user == get_current_user(users, bearer, now)
       IN  IF current_user.status # 200
             THEN response' = [op |-> "POST /logout", arg |-> v,
                               status |-> current_user.status,
                               detail |-> current_user.detail]
             ELSE response' = [op |-> "POST /logout", arg |-> v, status |-> 200,
                               message |-> "Logged out successfully"]
    /\ UNCHANGED <<users, next_user_id, refresh_tokens, now, client, calls>>

(***************************************************************************)
(* The OAuth handshake state (routes/auth.py, login and auth_callback).    *)
(*                                                                         *)
(* A text is a sequence of pieces; a piece is a run of ordinary characters *)
(* or one of the characters and escapes the parsing turns on: "|", ":",    *)
(* "?", "&" and the percent-escapes "%7C" and "%3A".                       *)
(***************************************************************************)
frontend_url == <<"https", ":", "//www.tectel.com.uy">>
base_url == <<"http", ":", "//localhost", ":", "8008">>

\* urllib.parse.unquote
unquote_piece(ch) ==
    IF ch = "%7C" THEN "|" ELSE IF ch = "%3A" THEN ":" ELSE ch
unquote(text) == [i \in 1..Len(text) |-> unquote_piece(text[i])]

\* str.count, str.split and str.join on one-character separators
count(text, sep) == Cardinality({i \in 1..Len(text) : text[i] = sep})

RECURSIVE split(_, _)
split(text, sep) ==
    IF count(text, sep) = 0 THEN <<text>>
    ELSE LET i == CHOOSE j \in 1..Len(text) :
                     /\ text[j] = sep
                     /\ \A k \in 1..(j - 1) : text[k] # sep
         IN  <<SubSeq(text, 1, i - 1)>>
                 \o split(SubSeq(text, i + 1, Len(text)), sep)

RECURSIVE join(_, _)
join(sep, parts) ==
    IF Len(parts) = 0 THEN <<>>
    ELSE IF Len(parts) = 1 THEN parts[1]
    ELSE parts[1] \o <<sep>> \o join(sep, Tail(parts))

\* The defaults login and auth_callback fall back to.
default_redirect_uri(provider) == base_url \o <<"/callback/", provider>>
default_client_redirect_uri == frontend_url \o <<"/signin", "?", "success=true">>

\* login: the values that go into the state.  A query parameter that is
\* absent or empty (<<>> stands for both, "if not ..." tells neither from
\* the other) is replaced by its default.
login_redirect_uri(provider, query) ==
    IF query = <<>> THEN default_redirect_uri(provider) ELSE query
login_client_redirect_uri(query) ==
    IF query = <<>> THEN default_client_redirect_uri ELSE query

\* state_data = f"{state}|{redirect_uri}|{client_redirect_uri}|{provider}"
state_data(state, redirect_uri, client_redirect_uri, provider) ==
    state \o <<"|">> \o redirect_uri \o <<"|">> \o client_redirect_uri
          \o <<"|">> \o <<provider>>

\* A local variable the parsing never assigned.
Unbound == <<"<unbound>">>

\* auth_callback, lines 118-166: what the handler reads out of the state.
parse_state(state, provider) ==
    LET decoded_state == unquote(state)
        fallback == [state_part |-> Unbound,
                     redirect_uri |-> default_redirect_uri(provider),
                     client_redirect_uri |-> default_client_redirect_uri,
                     state_provider |-> <<provider>>]
    IN  IF count(decoded_state, "|") > 0
          THEN LET state_parts == split(decoded_state, "|")
               IN  IF Len(state_parts) >= 4
                     THEN [state_part |-> state_parts[1],
                           redirect_uri |-> state_parts[2],
                           client_redirect_uri |-> state_parts[3],
                           state_provider |-> state_parts[4]]
                     ELSE fallback
        ELSE IF count(decoded_state, ":") >= 2
          THEN LET state_parts == split(decoded_state, ":")
                   n == Len(state_parts)
               IN  IF n >= 4
                     THEN [state_part |-> state_parts[1],
                           redirect_uri |->
                               join(":", SubSeq(state_parts, 2, n - 2)),
                           client_redirect_uri |-> state_parts[n - 1],
                           state_provider |-> state_parts[n]]
                     ELSE [state_part |-> state_parts[1],
                           redirect_uri |->
                               join(":", SubSeq(state_parts, 2, n - 1)),
                           client_redirect_uri |-> default_client_redirect_uri,
                           state_provider |-> state_parts[n]]
        ELSE fallback

\* The key of a query parameter.
param_key(param) ==
    IF Len(param) = 0 THEN ""
    ELSE IF param[1] = "success=true" THEN "success"
    ELSE IF param[1] \in {"error=oauth_failed", "error=NotRegistered",
                          "error=stale"} THEN "error"
    ELSE IF param[1] = "name=" THEN "name"
    ELSE param[1]

\* query_params[key] = [...]: the parameter takes the place of the one
\* with its key, or goes last.
RECURSIVE set_param(_, _)
set_param(params, param) ==
    IF Len(params) = 0 THEN <<param>>
    ELSE IF param_key(params[1]) = param_key(param)
      THEN <<param>> \o SelectSeq(Tail(params),
                                  LAMBDA q : param_key(q) # param_key(param))
    ELSE <<params[1]>> \o set_param(Tail(params), param)

RECURSIVE set_params(_, _)
set_params(params, new) ==
    IF Len(new) = 0 THEN params
    ELSE set_params(set_param(params, new[1]), Tail(new))

\* Mutant: the "success" parameter is left in the query.
error_redirect_keeps_success(client_redirect_uri, new) ==
    LET parts == split(client_redirect_uri, "?")
        query == join("?", Tail(parts))
        query_params == SelectSeq(split(query, "&"),
                                  LAMBDA q : param_key(q) # "")
    IN  parts[1] \o <<"?">> \o join("&", set_params(query_params, new))

\* auth_callback, lines 177-190: urlparse, parse_qs, drop
\* "success", set the new parameters, urlencode, urlunparse.  (Texts carry
\* each key once and no fragment.)
error_redirect(client_redirect_uri, new) ==
    LET parts == split(client_redirect_uri, "?")
        query == join("?", Tail(parts))
        query_params == SelectSeq(split(query, "&"),
                                  LAMBDA q : param_key(q) \notin {"", "success"})
    IN  parts[1] \o <<"?">> \o join("&", set_params(query_params, new))

\* OAuthService.get_github_auth_url(state) and get_google_auth_url(state):
\* the provider's authorization endpoint with the state as last parameter.
get_github_auth_url(state) ==
    <<"https", ":", "//github.com/login/oauth/authorize", "?",
      "client_id=", "&", "redirect_uri="
     >> \o frontend_url \o <<"/auth/callback/github", "&", "scope=user",
                              ":", "email", "&", "state=">> \o state
get_google_auth_url(state) ==
    <<"https", ":", "//accounts.google.com/o/oauth2/auth", "?",
      "client_id=", "&", "redirect_uri="
     >> \o frontend_url \o <<"/auth/callback/google", "&",
                              "scope=openid email profile", "&",
                              "response_type=code", "&", "state=">> \o state

\* GET /login/{provider}.  The handler calls get_github_auth_url and
\* get_google_auth_url with (state_data, redirect_uri); the methods take
\* the state only, so the call raises TypeError and no URL is built.
login(provider, redirect_uri, client_redirect_uri) ==
    /\ response' =
          IF provider \notin {"github", "google"}
            THEN [op |-> "GET /login", provider |-> provider, status |-> 400,
                  detail |-> "Unsupported provider", body |-> None]
            ELSE [op |-> "GET /login", provider |-> provider, status |-> 500,
                  detail |-> "TypeError", body |-> None]
    /\ UNCHANGED <<users, next_user_id, refresh_tokens, now, client, calls>>

\* What a callback answers with, next to the request it answers.  body is
\* the body of the response, raised the exception that ended the handler.
callback_response(provider, state, exchange, oauth_data, status, loc, raised) ==
    [op |-> "GET /callback", provider |-> provider, state |-> state,
     exchange |-> exchange, oauth_data |-> oauth_data, status |-> status,
     location |-> loc, body |-> None, raised |-> raised]

\* GET /callback/{provider}.  state is the state query parameter,
\* oauth_data what the provider exchange yields (None when it fails);
\* "exchange" records what the code exchange came to.  With a profile in
\* hand the handler calls auth_service.get_existing_user(db, oauth_data)
\* (line 195), a method AuthService does not have: the call raises
\* AttributeError before a table is read, and the lines after it (the
\* NotRegistered redirect, create_tokens, the redirect to the client) are
\* never run.  Callbacks arrive at the early instants (a bound of the
\* model).
auth_callback(provider, oauth_data, state) ==
    /\ now <= MaxEarly
    /\ IF provider \notin {"github", "google"}
         THEN response' = callback_response(provider, state, "skipped",
                                            None, 400, <<>>, "")
       ELSE LET client_redirect_uri ==
                    parse_state(state, provider).client_redirect_uri
            IN
       IF provider = "google"
         THEN \* exchange_google_code(code, redirect_uri): the method takes
              \* the code only, so the call raises TypeError
              response' = callback_response(provider, state, "TypeError",
                                            None, 500, <<>>, "TypeError")
       ELSE IF oauth_data = None
         THEN response' = callback_response(provider, state, "none", None,
                      307,
                      error_redirect(client_redirect_uri,
                                     <<(<<"error=oauth_failed">>)>>),
                      "")
       ELSE response' = callback_response(provider, state, "profile",
                                          oauth_data, 500, <<>>,
                                          "AttributeError")
    /\ UNCHANGED <<users, next_user_id, refresh_tokens, now, client, calls>>

\* POST /admin/pre-register
pre_register_user(request, bearer) ==
    /\ next_user_id <= MaxUsers
    /\ IF ~verify_api_token(bearer)
         THEN /\ response' = [op |-> "POST /admin/pre-register",
                              status |-> 401]
              /\ UNCHANGED <<users, next_user_id>>
       ELSE IF \E i \in DOMAIN users :
                  /\ users[i].provider = request.provider
                  /\ users[i].provider_id = request.provider_id
         THEN /\ response' = [op |-> "POST /admin/pre-register",
                              status |-> 200, message |-> "already registered"]
              /\ UNCHANGED <<users, next_user_id>>
       ELSE IF \E i \in DOMAIN users :
                  \/ users[i].email = request.email
                  \/ users[i].username = request.username
         THEN \* db.commit() raises IntegrityError: unique email, unique
              \* username; the INSERT has drawn its id from the sequence
              /\ response' = [op |-> "POST /admin/pre-register",
                              status |-> 500]
              /\ next_user_id' = next_user_id + 1
              /\ UNCHANGED users
       ELSE /\ users' = [i \in DOMAIN users \cup {next_user_id} |->
                           IF i \in DOMAIN users THEN users[i]
                           ELSE [id |-> next_user_id,
                                 email |-> request.email,
                                 username |-> request.username,
                                 provider |-> request.provider,
                                 provider_id |-> request.provider_id,
                                 is_active |-> TRUE,
                                 is_admin |-> FALSE,
                                 permissions |-> NoServices]]
            /\ next_user_id' = next_user_id + 1
            /\ response' = [op |-> "POST /admin/pre-register",
                            status |-> 200, message |-> "pre-registered"]
    /\ UNCHANGED <<refresh_tokens, now, client, calls>>

\* DELETE /admin/users/{user_id}
remove_user(user_id, bearer) ==
    /\ IF ~verify_api_token(bearer)
         THEN /\ response' = [op |-> "DELETE /admin/users",
                              status |-> 401]
              /\ UNCHANGED users
       ELSE IF user_id \notin DOMAIN users
         THEN /\ response' = [op |-> "DELETE /admin/users",
                              status |-> 404]
              /\ UNCHANGED users
       ELSE /\ users' = [i \in DOMAIN users \ {user_id} |-> users[i]]
            /\ response' = [op |-> "DELETE /admin/users",
                            status |-> 200]
    /\ UNCHANGED <<next_user_id, refresh_tokens, now, client, calls>>

(***************************************************************************)
(* The environment: the operator edits a row's settings columns in the     *)
(* store (no route writes them after the row is created), and time passes. *)
(***************************************************************************)
SettingsInputs ==
    { [is_active |-> TRUE, is_admin |-> FALSE, permissions |-> NoServices],
      [is_active |-> FALSE, is_admin |-> FALSE, permissions |-> NoServices],
      [is_active |-> TRUE, is_admin |-> TRUE, permissions |-> NoServices],
      [is_active |-> TRUE, is_admin |-> FALSE, permissions |-> AllServices] }

db_update_user_settings(id, new) ==
    /\ id \in DOMAIN users
    /\ users' = [users EXCEPT ![id].is_active = new.is_active,
                              ![id].is_admin = new.is_admin,
                              ![id].permissions = new.permissions]
    /\ users' # users
    /\ response' = [op |-> "db_update_user_settings"]
    /\ UNCHANGED <<next_user_id, refresh_tokens, now, client, calls>>

Tick ==
    /\ \E t \in Instants : t > now /\ now' = t
    /\ UNCHANGED <<users, next_user_id, refresh_tokens, response, client,
                   calls>>

Next ==
    \/ \E id \in 1..MaxUsers, s \in Secrets : CreateTokens(id, s, FALSE)
    \/ \E v \in Strings : RefreshAccessToken(v)
    \/ \E v \in Strings : RevokeRefreshToken(v)
    \/ \E p \in Profiles, b \in ApiBearers : pre_register_user(p, b)
    \/ \E id \in 1..MaxUsers, b \in ApiBearers : remove_user(id, b)
    \/ \E id \in 1..MaxUsers, new \in SettingsInputs :
          db_update_user_settings(id, new)
    \/ Tick

Spec == Init /\ [][Next]_vars

\* The HTTP surface, with direct service calls standing for the session
\* establishment and revocation no route of its own performs.
NextRoutes ==
    \/ \E p \in Profiles, b \in ApiBearers : pre_register_user(p, b)
    \/ \E pr \in {"github", "google", "twitter"}, o \in OAuthResults,
          st \in CallbackStates : auth_callback(pr, o, st)
    \/ \E pr \in {"github", "google", "twitter"},
          a \in {<<>>}, b \in {<<>>, AppRedirect} : login(pr, a, b)
    \/ \E id \in 1..MaxUsers, s \in Secrets : CreateTokens(id, s, TRUE)
    \/ \E v \in Strings : RevokeRefreshToken(v)
    \/ \E v \in Strings : refresh_token(v)
    \/ \E b \in HandedToken \cup {NoHeader, Garbage}, v \in Strings : logout(b, v)
    \/ Tick

SpecRoutes == Init /\ [][NextRoutes]_vars

\* Login, operator edits of the identity's settings, renewal.
NextSnapshot ==
    \/ \E p \in Profiles, b \in ApiBearers : pre_register_user(p, b)
    \/ \E id \in 1..MaxUsers, s \in Secrets : CreateTokens(id, s, TRUE)
    \/ \E id \in 1..MaxUsers, new \in SettingsInputs :
          db_update_user_settings(id, new)
    \/ \E v \in Strings : RefreshAccessToken(v)

SpecSnapshot == Init /\ [][NextSnapshot]_vars

(***************************************************************************)
(* The access-token codec on its own: TokenService.create_access_token     *)
(* and verify_access_token applied to claims a caller supplies, as time    *)
(* passes.  client holds the minted token with the claims and the instant  *)
(* it was minted from.                                                     *)
(***************************************************************************)
BaseClaims ==
    { [sub |-> "user123", email |-> "a@x", username |-> "a",
       is_admin |-> a, permissions |-> NoServices] : a \in BOOLEAN }

\* Input claims: the base ones, possibly with a "type" and an "exp" of the
\* caller's own.
WithKey(d, k, x) == [j \in DOMAIN d \cup {k} |-> IF j = k THEN x ELSE d[j]]
WithoutKey(d, k) == [j \in DOMAIN d \ {k} |-> d[j]]

ClaimSets ==
    LET typed == BaseClaims
                   \cup {WithKey(d, "type", ty) :
                            d \in BaseClaims, ty \in {"access", "refresh"}}
    IN  typed \cup {WithKey(d, "exp", e) : d \in typed, e \in {0, 2000000000}}

\* Tokens someone can present in place of a minted one.
WrongKey(tok) ==
    [tok EXCEPT !.sig = sign("another-key", tok.claims)]
Tampered(tok) ==
    [tok EXCEPT !.claims = [tok.claims EXCEPT !.exp = @ + 86400]]
Retyped(tok) ==
    jwt_encode_plain([tok.claims EXCEPT !.type = "refresh"], jwt_secret_key)
Untyped(tok) ==
    jwt_encode_plain(WithoutKey(tok.claims, "type"), jwt_secret_key)

WrongPurpose(tok) == {Retyped(tok), Untyped(tok)}
Forged(tok) == {WrongKey(tok), Tampered(tok), Garbage}

\* The instants the codec's clock visits: the minting instants and the
\* ticks around the expiry of the tokens minted then.
CodecInstants ==
    (0..MaxMint)
        \cup {AccessLifetime + k : k \in (-1)..(MaxMint + TicksPerSecond + 1)}

Mint(data) ==
    /\ now <= MaxMint
    /\ client' = [data |-> data, minted_at |-> now,
                  access_token |-> create_access_token(data, now)]
    /\ response' = [op |-> "create_access_token"]
    /\ UNCHANGED <<users, next_user_id, refresh_tokens, now, calls>>

Verify(token) ==
    /\ response' = [op |-> "verify_access_token", arg |-> token, at |-> now,
                    body |-> verify_access_token(token, now)]
    /\ UNCHANGED <<users, next_user_id, refresh_tokens, now, client, calls>>

TickCodec ==
    /\ \E t \in CodecInstants : t > now /\ now' = t
    /\ UNCHANGED <<users, next_user_id, refresh_tokens, client, response,
                   calls>>

Presentable ==
    IF client = None THEN {Garbage}
    ELSE {client.access_token} \cup WrongPurpose(client.access_token)
            \cup Forged(client.access_token)

NextCodec ==
    \/ \E data \in ClaimSets : Mint(data)
    \/ \E token \in Presentable : Verify(token)
    \/ TickCodec

SpecCodec == Init /\ [][NextCodec]_vars

(***************************************************************************)
(* AuthService.refresh_access_token and revoke_refresh_token statement by  *)
(* statement, for requests served at the same time.  Every db.query(...)   *)
(* .first() and every db.commit() is one step against the shared tables;   *)
(* what a call read earlier stays in its locals.                           *)
(***************************************************************************)
SetCall(c, rec) == calls' = [calls EXCEPT ![c] = rec]

\* The call arrives.  usable: whether a renewal of v would succeed at this
\* moment (kept for the record, the code does not read it).
refresh_call(c, v) ==
    /\ calls[c] = Idle
    /\ SetCall(c, [op |-> "refresh_access_token", arg |-> v,
                   pc |-> "query_token",
                   usable |-> refresh_access_token(refresh_tokens, users,
                                                   v, now) # None])
    /\ UNCHANGED <<users, next_user_id, refresh_tokens, now, client, response>>

\* db_token = db.query(RefreshToken).filter(...).first()
refresh_query_token(c) ==
    /\ calls[c].op = "refresh_access_token" /\ calls[c].pc = "query_token"
    /\ LET token_hash == hash_refresh_token(calls[c].arg)
           found == {r \in refresh_tokens : /\ r.token_hash = token_hash
                                            /\ r.is_revoked = FALSE
                                            /\ r.expires_at > now}
       IN  IF found = {}
             THEN SetCall(c, [calls[c] EXCEPT !.pc = "done"] @@ [ret |-> None])
             ELSE SetCall(c, [calls[c] EXCEPT !.pc = "query_user"]
                               @@ [db_token |-> CHOOSE r \in found : TRUE])
    /\ UNCHANGED <<users, next_user_id, refresh_tokens, now, client, response>>

\* Mutant: the renewal consumes the credential it was given.
refresh_query_user_consumes(c) ==
    /\ calls[c].op = "refresh_access_token" /\ calls[c].pc = "query_user"
    /\ LET id == calls[c].db_token.user_id
       IN  SetCall(c, [calls[c] EXCEPT !.pc = "done"] @@
              [ret |-> IF id \notin DOMAIN users \/ ~users[id].is_active
                         THEN None
                         ELSE [access_token |->
                                  create_access_token(access_claims(users[id]),
                                                      now),
                               token_type |-> "bearer",
                               expires_in |-> expires_in]])
    /\ refresh_tokens' =
          {IF r.token_hash = calls[c].db_token.token_hash
             THEN [r EXCEPT !.is_revoked = TRUE] ELSE r : r \in refresh_tokens}
    /\ UNCHANGED <<users, next_user_id, now, client, response>>

\* user = db.query(User).filter(User.id == db_token.user_id).first(), then
\* the token is minted and the call returns.
refresh_query_user(c) ==
    /\ calls[c].op = "refresh_access_token" /\ calls[c].pc = "query_user"
    /\ LET id == calls[c].db_token.user_id
       IN  SetCall(c, [calls[c] EXCEPT !.pc = "done"] @@
              [ret |-> IF id \notin DOMAIN users \/ ~users[id].is_active
                         THEN None
                         ELSE [access_token |->
                                  create_access_token(access_claims(users[id]),
                                                      now),
                               token_type |-> "bearer",
                               expires_in |-> expires_in]])
    /\ UNCHANGED <<users, next_user_id, refresh_tokens, now, client, response>>

revoke_call(c, v) ==
    /\ calls[c] = Idle
    /\ SetCall(c, [op |-> "revoke_refresh_token", arg |-> v, pc |-> "query"])
    /\ UNCHANGED <<users, next_user_id, refresh_tokens, now, client, response>>

\* db_token = db.query(RefreshToken).filter(token_hash == ...).first()
revoke_query(c) ==
    /\ calls[c].op = "revoke_refresh_token" /\ calls[c].pc = "query"
    /\ LET token_hash == hash_refresh_token(calls[c].arg)
           found == {r \in refresh_tokens : r.token_hash = token_hash}
       IN  IF found # {}
             THEN SetCall(c, [calls[c] EXCEPT !.pc = "commit"]
                               @@ [db_token |-> CHOOSE r \in found : TRUE])
             ELSE SetCall(c, [calls[c] EXCEPT !.pc = "done"] @@ [ret |-> FALSE])
    /\ UNCHANGED <<users, next_user_id, refresh_tokens, now, client, response>>

\* Mutant: the flag is flipped instead of set.
revoke_commit_flips(c) ==
    /\ calls[c].op = "revoke_refresh_token" /\ calls[c].pc = "commit"
    /\ refresh_tokens' =
          {IF r.token_hash = calls[c].db_token.token_hash
             THEN [r EXCEPT !.is_revoked = ~calls[c].db_token.is_revoked]
             ELSE r : r \in refresh_tokens}
    /\ SetCall(c, [calls[c] EXCEPT !.pc = "done"] @@ [ret |-> TRUE])
    /\ UNCHANGED <<users, next_user_id, now, client, response>>

\* db_token.is_revoked = True; db.commit(): the row read is updated by its
\* primary key, then the call returns True.
revoke_commit(c) ==
    /\ calls[c].op = "revoke_refresh_token" /\ calls[c].pc = "commit"
    /\ refresh_tokens' =
          {IF r.token_hash = calls[c].db_token.token_hash
             THEN [r EXCEPT !.is_revoked = TRUE] ELSE r : r \in refresh_tokens}
    /\ SetCall(c, [calls[c] EXCEPT !.pc = "done"] @@ [ret |-> TRUE])
    /\ UNCHANGED <<users, next_user_id, now, client, response>>

\* The strings concurrent callers present: the secrets handed out and one
\* that never was.  The clock stands still while the calls run.
RawStrings ==
    {token_urlsafe(s) : s \in Secrets}
        \cup {[core |-> MaxSecrets + 1, pad |-> FALSE]}

\* Users are registered while no renewal or revocation is being served:
\* the handler's query and its commit then have nothing to interleave with.
NextConcurrent ==
    \/ \E request \in Profiles, bearer \in {api_token} :
          /\ \A c \in Callers : calls[c] = Idle
          /\ pre_register_user(request, bearer)
    \/ \E id \in 1..MaxUsers, s \in Secrets : CreateTokens(id, s, FALSE)
    \/ \E c \in Callers, v \in RawStrings : refresh_call(c, v)
    \/ \E c \in Callers : refresh_query_token(c)
    \/ \E c \in Callers : refresh_query_user(c)
    \/ \E c \in Callers, v \in RawStrings : revoke_call(c, v)
    \/ \E c \in Callers : revoke_query(c)
    \/ \E c \in Callers : revoke_commit(c)

SpecConcurrent == Init /\ [][NextConcurrent]_vars

(***************************************************************************)
(* The writers of the users table, statement by statement, for requests    *)
(* served at the same time: POST /admin/pre-register, POST /backup-login   *)
(* and AuthService.create_or_update_user.  The table has a unique index on *)
(* email and one on username (models/user.py); a commit that would break   *)
(* one raises IntegrityError and writes nothing.  The id of a row comes    *)
(* from the table's sequence, which a failed insert uses up as well.       *)
(***************************************************************************)
\* Mutant: only the index on email is there.
unique_violation_email_only(db_users, id, email, username) ==
    \E i \in DOMAIN db_users \ {id} : db_users[i].email = email

\* Would row id, holding this email and username, break a unique index?
unique_violation(db_users, id, email, username) ==
    \E i \in DOMAIN db_users \ {id} :
        \/ db_users[i].email = email
        \/ db_users[i].username = username

insert_user(db_users, row) ==
    [i \in DOMAIN db_users \cup {row.id} |->
        IF i = row.id THEN row ELSE db_users[i]]

\* The profiles requests carry here: two for one GitHub account under
\* different e-mail addresses and names, and a Google account with the
\* name of the first and the address of the second.
IdentityProfiles ==
    { [email |-> "a@x", username |-> "a", full_name |-> "A",
       avatar_url |-> Str("a.png"), provider |-> "github",
       provider_id |-> "1", provider_data |-> [dict |-> {<<"login", "a">>}]],
      [email |-> "c@x", username |-> "c", full_name |-> "C",
       avatar_url |-> Str("c.png"), provider |-> "github",
       provider_id |-> "1", provider_data |-> [dict |-> {<<"login", "c">>}]],
      [email |-> "c@x", username |-> "a", full_name |-> "A2",
       avatar_url |-> Str("a2.png"), provider |-> "google",
       provider_id |-> "2", provider_data |-> [dict |-> {<<"sub", "2">>}]] }

\* The profiles the requests served at the same time carry: one person
\* seen under two e-mail addresses and login names of a GitHub account,
\* and under a Google account with the name of the first and the address
\* of the second.
RacingProfiles ==
    { [email |-> "a@x", username |-> "a", full_name |-> "A",
       avatar_url |-> Str("a.png"), provider |-> "github",
       provider_id |-> "1", provider_data |-> [dict |-> {<<"id", "1">>}]],
      [email |-> "c@x", username |-> "c", full_name |-> "A",
       avatar_url |-> Str("a.png"), provider |-> "github",
       provider_id |-> "1", provider_data |-> [dict |-> {<<"id", "1">>}]],
      [email |-> "c@x", username |-> "a", full_name |-> "A",
       avatar_url |-> Str("a.png"), provider |-> "google",
       provider_id |-> "2", provider_data |-> [dict |-> {<<"sub", "2">>}]] }

\* Rows as the writers build them.  A nullable column holds None until it
\* is set: avatar_url holds Str(url), provider_data the JSON object as
\* [dict |-> pairs], last_login the instant as [at |-> t].  created_at and
\* updated_at are left out: nothing reads them.
\* Mutant: a pre-registered identity is let into every service.
pre_registered_user_all_services(id, request) ==
    [id |-> id, email |-> request.email, username |-> request.username,
     full_name |-> request.full_name, avatar_url |-> None,
     provider |-> request.provider, provider_id |-> request.provider_id,
     provider_data |-> [dict |-> {}], is_active |-> TRUE, is_admin |-> FALSE,
     permissions |-> AllServices, last_login |-> None]

\* User(...) of pre_register_user
pre_registered_user(id, request) ==
    [id |-> id, email |-> request.email, username |-> request.username,
     full_name |-> request.full_name, avatar_url |-> None,
     provider |-> request.provider, provider_id |-> request.provider_id,
     provider_data |-> [dict |-> {}], is_active |-> TRUE, is_admin |-> FALSE,
     permissions |-> NoServices, last_login |-> None]

\* Mutant: a new identity starts as an administrator.
oauth_user_admin(id, oauth_data, t) ==
    [id |-> id, email |-> oauth_data.email, username |-> oauth_data.username,
     full_name |-> oauth_data.full_name, avatar_url |-> oauth_data.avatar_url,
     provider |-> oauth_data.provider, provider_id |-> oauth_data.provider_id,
     provider_data |-> oauth_data.provider_data,
     is_active |-> TRUE, is_admin |-> TRUE, permissions |-> NoServices,
     last_login |-> [at |-> t]]

\* User(...) of create_or_update_user
oauth_user(id, oauth_data, t) ==
    [id |-> id, email |-> oauth_data.email, username |-> oauth_data.username,
     full_name |-> oauth_data.full_name, avatar_url |-> oauth_data.avatar_url,
     provider |-> oauth_data.provider, provider_id |-> oauth_data.provider_id,
     provider_data |-> oauth_data.provider_data,
     is_active |-> TRUE, is_admin |-> FALSE, permissions |-> NoServices,
     last_login |-> [at |-> t]]

\* Mutant: the update takes the profile's username along.
oauth_user_update_renames(user, oauth_data, t) ==
    [user EXCEPT !.email = oauth_data.email,
                 !.username = oauth_data.username,
                 !.full_name = oauth_data.full_name,
                 !.avatar_url = oauth_data.avatar_url,
                 !.provider_data = oauth_data.provider_data,
                 !.last_login = [at |-> t]]

\* The assignments of create_or_update_user to the row it found.
oauth_user_update(user, oauth_data, t) ==
    [user EXCEPT !.email = oauth_data.email,
                 !.full_name = oauth_data.full_name,
                 !.avatar_url = oauth_data.avatar_url,
                 !.provider_data = oauth_data.provider_data,
                 !.last_login = [at |-> t]]

\* ---- The environment backup_login reads ---------------------------------
\* os.getenv(key, ""): an environment is a record of the three variables,
\* "" for one that is not set.  A dict is a function on its keys, the
\* empty dict the function on no key.
EmptyDict == <<>>
UsersJson == "{\"admin\": {...}, \"ops\": {...}}"
DemotedJson == "{\"admin\": {..., \"is_admin\": false}}"
BrokenJson == "not-json"
EmptyJson == "{}"

\* json.loads on the documents BACKUP_USERS is set to here.
json_loads(text) ==
    CASE text = EmptyJson -> [raised |-> "", ret |-> EmptyDict]
      [] text = UsersJson ->
            [raised |-> "",
             ret |-> [admin |-> [password_hash |-> [sha256 |-> "correct-horse"],
                                 email |-> "c@x", is_admin |-> TRUE,
                                 permissions |-> AllServices],
                      ops |-> [password_hash |-> [sha256 |-> "ops-horse"]]]]
      [] text = DemotedJson ->
            [raised |-> "",
             ret |-> [admin |-> [password_hash |-> [sha256 |-> "correct-horse"],
                                 email |-> "c@x", is_admin |-> FALSE,
                                 permissions |-> NoServices]]]
      [] OTHER -> [raised |-> "JSONDecodeError", ret |-> None]

Unset ==
    [BACKUP_USERS |-> "", BACKUP_ADMIN_USERNAME |-> "",
     BACKUP_ADMIN_PASSWORD_HASH |-> [sha256 |-> ""]]
Environments ==
    { Unset,
      [Unset EXCEPT !.BACKUP_USERS = BrokenJson],
      [Unset EXCEPT !.BACKUP_USERS = EmptyJson],
      [Unset EXCEPT !.BACKUP_USERS = UsersJson],
      [Unset EXCEPT !.BACKUP_USERS = DemotedJson],
      [Unset EXCEPT !.BACKUP_ADMIN_USERNAME = "admin"],
      [Unset EXCEPT !.BACKUP_ADMIN_USERNAME = "admin",
                    !.BACKUP_ADMIN_PASSWORD_HASH = [sha256 |-> "legacy-horse"]] }

\* Mutant: an environment with no backup user is served like any other.
load_backup_users_never_off(env) ==
    IF env.BACKUP_USERS = ""
      THEN IF /\ env.BACKUP_ADMIN_USERNAME # ""
              /\ env.BACKUP_ADMIN_PASSWORD_HASH # [sha256 |-> ""]
             THEN [status |-> 200,
                   backup_users |->
                      env.BACKUP_ADMIN_USERNAME :>
                          [password_hash |-> env.BACKUP_ADMIN_PASSWORD_HASH,
                           is_admin |-> TRUE, permissions |-> AllServices]]
             ELSE [status |-> 200, backup_users |-> EmptyDict]
      ELSE LET loaded == json_loads(env.BACKUP_USERS)
           IN  IF loaded.raised # ""
                 THEN [status |-> 500, backup_users |-> EmptyDict]
               ELSE [status |-> 200, backup_users |-> loaded.ret]

\* The head of backup_login: BACKUP_USERS, or the single user of
\* BACKUP_ADMIN_USERNAME / BACKUP_ADMIN_PASSWORD_HASH; 500 when the JSON
\* does not parse, 503 when there is no backup user.
load_backup_users(env) ==
    IF env.BACKUP_USERS = ""
      THEN IF /\ env.BACKUP_ADMIN_USERNAME # ""
              /\ env.BACKUP_ADMIN_PASSWORD_HASH # [sha256 |-> ""]
             THEN [status |-> 200,
                   backup_users |->
                      env.BACKUP_ADMIN_USERNAME :>
                          [password_hash |-> env.BACKUP_ADMIN_PASSWORD_HASH,
                           is_admin |-> TRUE, permissions |-> AllServices]]
             ELSE [status |-> 503, backup_users |-> EmptyDict]
      ELSE LET loaded == json_loads(env.BACKUP_USERS)
           IN  IF loaded.raised # ""
                 THEN [status |-> 500, backup_users |-> EmptyDict]
               ELSE IF DOMAIN loaded.ret = {}
                 THEN [status |-> 503, backup_users |-> EmptyDict]
               ELSE [status |-> 200, backup_users |-> loaded.ret]

\* Mutant: any password opens the account of a configured username.
check_backup_credentials_any_password(users_config, request) ==
    request.username \in DOMAIN users_config

\* request.username in backup_users, and the digest of request.password
\* equal to the configured password_hash.
check_backup_credentials(users_config, request) ==
    /\ request.username \in DOMAIN users_config
    /\ [sha256 |-> request.password]
          = users_config[request.username].password_hash

\* user_config.get(key, default)
get(user_config, key, default) ==
    IF key \in DOMAIN user_config THEN user_config[key] ELSE default

\* The configuration the concurrent requests below are served under, and
\* the name callers try.
backup_users ==
    load_backup_users([Unset EXCEPT !.BACKUP_USERS = UsersJson]).backup_users
BackupNames == {"admin"}

\* Mutant: the name of the row does not follow the request's username.
backup_username_fixed(name) == "backup_admin"

\* f"backup_{request.username}", f"{backup_username}@fastapi.local" and
\* f"Backup User: {request.username}" for the names in use.
backup_username(name) ==
    CASE name = "admin" -> "backup_admin"
      [] name = "ops" -> "backup_ops"
      [] OTHER -> "backup_nobody"
default_email(name) ==
    CASE name = "admin" -> "backup_admin@fastapi.local"
      [] name = "ops" -> "backup_ops@fastapi.local"
      [] OTHER -> "backup_nobody@fastapi.local"
default_full(name) ==
    CASE name = "admin" -> "Backup User: admin"
      [] name = "ops" -> "Backup User: ops"
      [] OTHER -> "Backup User: nobody"

\* cfg_email or default_email, cfg_full or default_full
profile_email(name, user_config) ==
    LET cfg_email == get(user_config, "email", "")
    IN  IF cfg_email # "" THEN cfg_email ELSE default_email(name)
profile_full(name, user_config) ==
    LET cfg_full == get(user_config, "full_name", "")
    IN  IF cfg_full # "" THEN cfg_full ELSE default_full(name)

\* User(...) of backup_login; avatar_url and provider_data are not passed
\* and the columns have no default.
backup_user_new(id, name, user_config) ==
    [id |-> id, email |-> profile_email(name, user_config),
     username |-> backup_username(name),
     full_name |-> profile_full(name, user_config), avatar_url |-> None,
     provider |-> "backup", provider_id |-> name, provider_data |-> None,
     is_active |-> TRUE,
     is_admin |-> get(user_config, "is_admin", FALSE),
     permissions |-> get(user_config, "permissions", NoServices),
     last_login |-> None]

\* Mutant: the update follows the configured is_admin and permissions.
backup_user_update_syncs(backup_user, name, user_config) ==
    [backup_user EXCEPT !.email = profile_email(name, user_config),
                        !.full_name = profile_full(name, user_config),
                        !.is_admin = get(user_config, "is_admin", FALSE),
                        !.permissions =
                            get(user_config, "permissions", NoServices)]

\* The assignments of backup_login to the row it found.
backup_user_update(backup_user, name, user_config) ==
    [backup_user EXCEPT !.email = profile_email(name, user_config),
                        !.full_name = profile_full(name, user_config)]

\* Mutant: the query never finds a row.
FoundIds_none(ids) == {0}

\* .first() of a query with no ORDER BY: the id of any of the rows that
\* match, 0 when none does.
FoundIds(ids) == IF ids = {} THEN {0} ELSE ids

\* The columns the session holds as modified once the handler has made
\* its assignments to the row the query loaded: those whose assigned value
\* differs from the value loaded.
modified(loaded, assigned) ==
    {k \in DOMAIN loaded : assigned[k] # loaded[k]}

\* What db.commit() writes of a row loaded earlier: the UPDATE sets the
\* modified columns; every other column stays as it is in the table by
\* then.
flush(current, assigned, columns) ==
    [k \in DOMAIN current |->
        IF k \in columns THEN assigned[k] ELSE current[k]]

\* The handler returns or raises: the session, and what it held as
\* modified, is gone.
Finish(c, status, raised) ==
    SetCall(c, [k \in DOMAIN calls[c] \ {"modified"} |->
                   IF k = "pc" THEN "done" ELSE calls[c][k]]
                  @@ [status |-> status, raised |-> raised])

\* ---- POST /admin/pre-register -------------------------------------------
pre_register_call(c, request) ==
    /\ calls[c] = Idle
    /\ SetCall(c, [op |-> "pre_register_user", arg |-> request, pc |-> "query"])
    /\ UNCHANGED <<users, next_user_id, refresh_tokens, now, client, response>>

\* existing_user = db.query(User).filter(provider, provider_id).first()
pre_register_query(c) ==
    /\ calls[c].op = "pre_register_user" /\ calls[c].pc = "query"
    /\ IF \E i \in DOMAIN users :
             /\ users[i].provider = calls[c].arg.provider
             /\ users[i].provider_id = calls[c].arg.provider_id
         THEN Finish(c, 200, "")
         ELSE SetCall(c, [calls[c] EXCEPT !.pc = "commit"])
    /\ UNCHANGED <<users, next_user_id, refresh_tokens, now, client, response>>

\* db.add(user); db.commit()
pre_register_commit(c) ==
    /\ calls[c].op = "pre_register_user" /\ calls[c].pc = "commit"
    /\ next_user_id <= MaxIds
    /\ next_user_id' = next_user_id + 1
    /\ LET request == calls[c].arg
       IN  IF unique_violation(users, next_user_id, request.email,
                               request.username)
             THEN /\ Finish(c, 500, "IntegrityError")
                  /\ UNCHANGED users
             ELSE /\ users' = insert_user(users,
                                 pre_registered_user(next_user_id, request))
                  /\ Finish(c, 200, "")
    /\ UNCHANGED <<refresh_tokens, now, client, response>>

\* ---- AuthService.create_or_update_user ----------------------------------
create_or_update_call(c, oauth_data) ==
    /\ calls[c] = Idle
    /\ SetCall(c, [op |-> "create_or_update_user", arg |-> oauth_data,
                   pc |-> "query"])
    /\ UNCHANGED <<users, next_user_id, refresh_tokens, now, client, response>>

\* user = db.query(User).filter(provider, provider_id).first()
create_or_update_query(c) ==
    /\ calls[c].op = "create_or_update_user" /\ calls[c].pc = "query"
    /\ \E found \in FoundIds({i \in DOMAIN users :
                        /\ users[i].provider = calls[c].arg.provider
                        /\ users[i].provider_id = calls[c].arg.provider_id}) :
          SetCall(c, [calls[c] EXCEPT !.pc = "commit"] @@
              [found |-> found,
               modified |->
                   IF found = 0 THEN {}
                   ELSE modified(users[found],
                            oauth_user_update(users[found], calls[c].arg,
                                              now)) \cup {"last_login"}])
    /\ UNCHANGED <<users, next_user_id, refresh_tokens, now, client, response>>

\* user.email = ...; or db.add(user); then db.commit()
create_or_update_commit(c) ==
    /\ calls[c].op = "create_or_update_user" /\ calls[c].pc = "commit"
    /\ LET oauth_data == calls[c].arg
           id == calls[c].found
           user == flush(users[id],
                         oauth_user_update(users[id], oauth_data, now),
                         calls[c].modified)
       IN  IF id # 0
             THEN /\ UNCHANGED next_user_id
                  /\ IF unique_violation(users, id, user.email, user.username)
                       THEN Finish(c, 500, "IntegrityError") /\ UNCHANGED users
                       ELSE /\ users' = [users EXCEPT ![id] = user]
                            /\ Finish(c, 200, "")
             ELSE /\ next_user_id <= MaxIds
                  /\ next_user_id' = next_user_id + 1
                  /\ IF unique_violation(users, next_user_id, oauth_data.email,
                                         oauth_data.username)
                       THEN Finish(c, 500, "IntegrityError") /\ UNCHANGED users
                       ELSE /\ users' = insert_user(users,
                                   oauth_user(next_user_id, oauth_data, now))
                            /\ Finish(c, 200, "")
    /\ UNCHANGED <<refresh_tokens, now, client, response>>

\* ---- POST /backup-login -------------------------------------------------
backup_login_call(c, username, password) ==
    /\ calls[c] = Idle
    /\ SetCall(c, [op |-> "backup_login",
                   arg |-> [username |-> username, password |-> password],
                   pc |-> "query"])
    /\ UNCHANGED <<users, next_user_id, refresh_tokens, now, client, response>>

\* The credentials are checked against BACKUP_USERS, then
\* backup_user = db.query(User).filter(username, provider == "backup").first()
backup_login_query(c) ==
    /\ calls[c].op = "backup_login" /\ calls[c].pc = "query"
    /\ LET request == calls[c].arg
       IN  IF ~check_backup_credentials(backup_users, request)
             THEN Finish(c, 401, "")
           ELSE \E found \in FoundIds({i \in DOMAIN users :
                        /\ users[i].username = backup_username(request.username)
                        /\ users[i].provider = "backup"}) :
                   SetCall(c, [calls[c] EXCEPT !.pc = "commit"] @@
                       [found |-> found,
                        modified |->
                            IF found = 0 THEN {}
                            ELSE modified(users[found],
                                     backup_user_update(users[found],
                                         request.username,
                                         backup_users[request.username]))])
    /\ UNCHANGED <<users, next_user_id, refresh_tokens, now, client, response>>

\* db.add(backup_user) or backup_user.email = profile_email; db.commit()
backup_login_commit(c) ==
    /\ calls[c].op = "backup_login" /\ calls[c].pc = "commit"
    /\ LET name == calls[c].arg.username
           user_config == backup_users[name]
           id == calls[c].found
           user == flush(users[id],
                         backup_user_update(users[id], name, user_config),
                         calls[c].modified)
       IN  IF id # 0
             THEN /\ UNCHANGED next_user_id
                  /\ IF unique_violation(users, id, user.email, user.username)
                       THEN Finish(c, 500, "IntegrityError") /\ UNCHANGED users
                       ELSE /\ users' = [users EXCEPT ![id] = user]
                            /\ SetCall(c, [calls[c] EXCEPT !.pc = "tokens"])
             ELSE /\ next_user_id <= MaxIds
                  /\ next_user_id' = next_user_id + 1
                  /\ IF unique_violation(users, next_user_id,
                                         profile_email(name, user_config),
                                         backup_username(name))
                       THEN Finish(c, 500, "IntegrityError") /\ UNCHANGED users
                       ELSE /\ users' = insert_user(users,
                                   backup_user_new(next_user_id, name,
                                                   user_config))
                            /\ SetCall(c, [calls[c] EXCEPT !.pc = "tokens",
                                                           !.found = next_user_id])
    /\ UNCHANGED <<refresh_tokens, now, client, response>>

\* tokens = auth_service.create_tokens(db, backup_user)
backup_login_tokens(c, s) ==
    /\ calls[c].op = "backup_login" /\ calls[c].pc = "tokens"
    /\ LET r == create_tokens(refresh_tokens, users[calls[c].found], s, now)
       IN  /\ refresh_tokens' = r.refresh_tokens
           /\ IF r.raised # "" THEN Finish(c, 500, r.raised)
                               ELSE Finish(c, 200, "")
    /\ UNCHANGED <<users, next_user_id, now, client, response>>

\* The response is out; the worker is free for the next request.
next_request(c) ==
    /\ calls[c] # Idle /\ calls[c].pc = "done"
    /\ SetCall(c, Idle)
    /\ UNCHANGED <<users, next_user_id, refresh_tokens, now, client, response>>

\* Requests of the three kinds, served at the same time.  Backup logins
\* carry the configured password (another one is refused before a table
\* is read).  The secret generator returns its first value: a second
\* backup login then meets the unique index on token_hash.
NextIdentities ==
    \/ \E c \in Callers, request \in RacingProfiles :
          pre_register_call(c, request)
    \/ \E c \in Callers : pre_register_query(c)
    \/ \E c \in Callers : pre_register_commit(c)
    \/ \E c \in Callers, oauth_data \in RacingProfiles :
          create_or_update_call(c, oauth_data)
    \/ \E c \in Callers : create_or_update_query(c)
    \/ \E c \in Callers : create_or_update_commit(c)
    \/ \E c \in Callers, name \in BackupNames :
          backup_login_call(c, name, "correct-horse")
    \/ \E c \in Callers : backup_login_query(c)
    \/ \E c \in Callers : backup_login_commit(c)
    \/ \E c \in Callers, s \in {x \in Secrets : x = 1} :
          backup_login_tokens(c, s)
    \/ \E c \in Callers : next_request(c)

SpecIdentities == Init /\ [][NextIdentities]_vars

(***************************************************************************)
(* AuthService.create_or_update_user as a whole, one call at a time, with  *)
(* the operator editing the settings columns and time passing in between.  *)
(***************************************************************************)
\* db.query(User).filter(provider == ..., provider_id == ...)
matching_users(db_users, oauth_data) ==
    {i \in DOMAIN db_users :
        /\ db_users[i].provider = oauth_data.provider
        /\ db_users[i].provider_id = oauth_data.provider_id}

\* Mutant: a new row gets the id after the highest id in the table, so the
\* id of a deleted last row is handed out again.
create_or_update_user_reuses_id(db_users, next_id, found, oauth_data, t) ==
    LET fresh == IF DOMAIN db_users = {} THEN 1
                 ELSE 1 + CHOOSE i \in DOMAIN db_users :
                              \A j \in DOMAIN db_users : j <= i
        user == IF found # 0
                  THEN oauth_user_update(db_users[found], oauth_data, t)
                  ELSE oauth_user(fresh, oauth_data, t)
        next == IF found # 0 THEN next_id ELSE next_id + 1
    IN  IF unique_violation(db_users, user.id, user.email, user.username)
          THEN [raised |-> "IntegrityError", found |-> found,
                users |-> db_users, next_user_id |-> next, ret |-> None]
          ELSE [raised |-> "", found |-> found,
                users |-> insert_user(db_users, user),
                next_user_id |-> next, ret |-> user]

\* found: the id of the row the query returned, 0 when it returned none
\* (the row is loaded and written in one step, so every assigned column
\* holds the assigned value afterwards).
\* next_user_id: the sequence after the call, an id being used up by an
\* insert whether it commits or not.
create_or_update_user(db_users, next_id, found, oauth_data, t) ==
    LET user == IF found # 0
                  THEN oauth_user_update(db_users[found], oauth_data, t)
                  ELSE oauth_user(next_id, oauth_data, t)
        next == IF found # 0 THEN next_id ELSE next_id + 1
    IN  IF unique_violation(db_users, user.id, user.email, user.username)
          THEN [raised |-> "IntegrityError", found |-> found,
                users |-> db_users, next_user_id |-> next, ret |-> None]
          ELSE [raised |-> "", found |-> found,
                users |-> insert_user(db_users, user),
                next_user_id |-> next, ret |-> user]

CreateOrUpdateUser(oauth_data) ==
    /\ \E found \in FoundIds(matching_users(users, oauth_data)) :
       LET r == create_or_update_user(users, next_user_id, found, oauth_data,
                                      now)
       IN  /\ r.found = 0 => next_user_id <= MaxIds
           /\ users' = r.users
           /\ next_user_id' = r.next_user_id
           /\ response' = [op |-> "create_or_update_user", arg |-> oauth_data,
                           found |-> r.found, raised |-> r.raised,
                           body |-> r.ret]
    /\ UNCHANGED <<refresh_tokens, now, client, calls>>

NextResolve ==
    \/ \E oauth_data \in IdentityProfiles : CreateOrUpdateUser(oauth_data)
    \/ \E id \in 1..MaxIds, new \in SettingsInputs :
          db_update_user_settings(id, new)
    \/ Tick

SpecResolve == Init /\ [][NextResolve]_vars

(***************************************************************************)
(* POST /backup-login as a whole, one request at a time: the request model *)
(* (BackupLoginRequest), the environment, the users table and the tokens.  *)
(*                                                                         *)
(* A username arrives as a text, a sequence of pieces: a run of characters *)
(* of [a-zA-Z0-9_.-] or a single other character.  A password is one       *)
(* piece.  len() of the pieces in use is tabulated.                        *)
(***************************************************************************)
X49 == "xxxxxxxxxxxxxxxxxxxxxxxxxxxxxxxxxxxxxxxxxxxxxxxxx"
X50 == "xxxxxxxxxxxxxxxxxxxxxxxxxxxxxxxxxxxxxxxxxxxxxxxxxx"
X51 == "xxxxxxxxxxxxxxxxxxxxxxxxxxxxxxxxxxxxxxxxxxxxxxxxxxx"
P100 == "pppppppppppppppppppppppppppppppppppppppppppppppppppppppppppppppppppppppppppppppppppppppppppppppppppp"
P101 == "ppppppppppppppppppppppppppppppppppppppppppppppppppppppppppppppppppppppppppppppppppppppppppppppppppppp"

WordPieces == {"admin", "ops", "nobody", "a.b-c_d", X49, X50, X51}
SpacePieces == {" ", "\n"}

piece_len(piece) ==
    CASE piece = "" -> 0
      [] piece \in SpacePieces \cup {"!"} -> 1
      [] piece = "ops" -> 3
      [] piece = "admin" -> 5
      [] piece = "nobody" -> 6
      [] piece \in {"a.b-c_d", "7-chars"} -> 7
      [] piece = "8-chars." -> 8
      [] piece = "ops-horse" -> 9
      [] piece = "wrong-horse" -> 11
      [] piece = "legacy-horse" -> 12
      [] piece = "correct-horse" -> 13
      [] piece = X49 -> 49
      [] piece = X50 -> 50
      [] piece = X51 -> 51
      [] piece = P100 -> 100
      [] piece = P101 -> 101

RECURSIVE len(_)
len(text) ==
    IF text = <<>> THEN 0 ELSE piece_len(Head(text)) + len(Tail(text))

\* str.strip(): leading and trailing whitespace goes.
RECURSIVE lstrip(_)
lstrip(text) ==
    IF text # <<>> /\ Head(text) \in SpacePieces THEN lstrip(Tail(text))
    ELSE text
RECURSIVE rstrip(_)
rstrip(text) ==
    IF text # <<>> /\ text[Len(text)] \in SpacePieces
      THEN rstrip(SubSeq(text, 1, Len(text) - 1))
    ELSE text
text_strip(text) == rstrip(lstrip(text))

\* Mutant: "$" matches at the very end of the string only.
re_match_fullmatch(text) ==
    /\ text # <<>>
    /\ \A i \in 1..Len(text) : text[i] \in WordPieces

\* re.match(r'^[a-zA-Z0-9_.-]+$', v): "$" matches at the end of the string
\* and also just before a newline that ends it.
re_match(text) ==
    LET body == IF text # <<>> /\ text[Len(text)] = "\n"
                  THEN SubSeq(text, 1, Len(text) - 1) ELSE text
    IN  /\ body # <<>>
        /\ \A i \in 1..Len(body) : body[i] \in WordPieces

\* The str a text of at most one piece stands for.
text_str(text) == IF text = <<>> THEN "" ELSE text[1]

\* BackupLoginRequest.validate_username
validate_username(v) ==
    IF v = <<>> \/ len(text_strip(v)) = 0
      THEN [raised |-> "ValueError", ret |-> ""]
    ELSE IF len(v) > 50 THEN [raised |-> "ValueError", ret |-> ""]
    ELSE IF ~re_match(v) THEN [raised |-> "ValueError", ret |-> ""]
    ELSE [raised |-> "", ret |-> text_str(text_strip(v))]

\* BackupLoginRequest.validate_password
validate_password(v) ==
    IF v = "" \/ piece_len(v) < 8 THEN [raised |-> "ValueError", ret |-> ""]
    ELSE IF piece_len(v) > 100 THEN [raised |-> "ValueError", ret |-> ""]
    ELSE [raised |-> "", ret |-> v]

\* Usernames and passwords requests carry.
UsernameTexts ==
    { <<>>, <<" ">>, <<"admin">>, <<"ops">>, <<"nobody">>, <<"a.b-c_d">>,
      <<"admin", "\n">>, <<"admin", "\n", "\n">>, <<" ", "admin">>,
      <<"admin", "!">>, <<X50>>, <<X51>>, <<X49, "\n">>, <<X50, "\n">> }
PasswordTexts ==
    { "", "7-chars", "8-chars.", "correct-horse", "wrong-horse", "ops-horse",
      "legacy-horse", P100, P101 }

\* The secrets create_tokens draws here: enough for a second login.
LoginSecrets == 1..(MaxSecrets + 1)

\* What a backup login answers with, next to the request it answers.
backup_response(env, username, password, status, detail, body) ==
    [op |-> "POST /backup-login", env |-> env, username |-> username,
     password |-> password, status |-> status, detail |-> detail,
     body |-> body]

\* POST /backup-login.  username and password are the fields of the JSON
\* body, env the environment of the process, s the secret create_tokens
\* draws.
backup_login(env, username, password, s) ==
    /\ now <= MaxEarly
    /\ LET name == validate_username(username)
           pass == validate_password(password)
           request == [username |-> name.ret, password |-> pass.ret]
           config == load_backup_users(env)
           answer(status, detail) ==
               /\ response' = backup_response(env, username, password,
                                              status, detail, None)
               /\ UNCHANGED <<users, next_user_id, refresh_tokens>>
       IN
       IF name.raised # "" \/ pass.raised # ""
         THEN answer(422, "ValueError")
       ELSE IF config.status = 500
         THEN answer(500, "Invalid BACKUP_USERS configuration")
       ELSE IF config.status = 503
         THEN answer(503, "Backup login not configured. Please contact an administrator.")
       ELSE IF ~check_backup_credentials(config.backup_users, request)
         THEN answer(401, "Invalid backup credentials")
       ELSE
       \E found \in FoundIds({i \in DOMAIN users :
                       /\ users[i].username = backup_username(request.username)
                       /\ users[i].provider = "backup"}) :
       LET user_config == config.backup_users[request.username]
           id == IF found # 0 THEN found ELSE next_user_id
           backup_user ==
               IF found # 0
                 THEN backup_user_update(users[found], request.username,
                                         user_config)
                 ELSE backup_user_new(next_user_id, request.username,
                                      user_config)
       IN  /\ found = 0 => next_user_id <= MaxIds
           /\ next_user_id' = IF found # 0 THEN next_user_id
                                           ELSE next_user_id + 1
           /\ IF unique_violation(users, id, backup_user.email,
                                  backup_user.username)
                THEN /\ response' = backup_response(env, username, password,
                                        500, "IntegrityError", None)
                     /\ UNCHANGED <<users, refresh_tokens>>
                ELSE LET r == create_tokens(refresh_tokens, backup_user, s,
                                            now)
                     IN  /\ users' = insert_user(users, backup_user)
                         /\ refresh_tokens' = r.refresh_tokens
                         /\ response' =
                              IF r.raised # ""
                                THEN backup_response(env, username, password,
                                         500, r.raised, None)
                                ELSE backup_response(env, username, password,
                                         200, "",
                                         [user |->
                                            [id |-> backup_user.id,
                                             email |-> backup_user.email,
                                             username |-> backup_user.username,
                                             full_name |-> backup_user.full_name,
                                             is_admin |-> backup_user.is_admin,
                                             permissions |->
                                                 backup_user.permissions]]
                                         @@ r.ret)
    /\ UNCHANGED <<now, client, calls>>

\* The requests tried: every username and every password against the
\* two-user configuration, the credentials of admin against every
\* environment, and malformed requests against a service with no or a
\* broken configuration.
JsonEnv == [Unset EXCEPT !.BACKUP_USERS = UsersJson]
BackupRequests ==
    { <<JsonEnv, username, "correct-horse">> : username \in UsernameTexts }
    \cup { <<JsonEnv, <<"admin">>, password>> : password \in PasswordTexts }
    \cup { <<env, username, password>> :
              env \in Environments,
              username \in {<<"admin">>, <<"nobody">>},
              password \in {"correct-horse", "legacy-horse"} }
    \cup { <<JsonEnv, <<"ops">>, "ops-horse">>,
           <<Unset, <<"admin", "!">>, "correct-horse">>,
           <<[Unset EXCEPT !.BACKUP_USERS = BrokenJson], <<"admin">>,
             "7-chars">> }

NextBackup ==
    \E request \in BackupRequests, s \in LoginSecrets :
        backup_login(request[1], request[2], request[3], s)

SpecBackup == Init /\ [][NextBackup]_vars

(***************************************************************************)
(* Sessions over the life of an identity: the identity is resolved from a  *)
(* provider profile, sessions are established for it, renewed and revoked, *)
(* the operator deactivates or removes it, and the same end user comes     *)
(* back and is given a new row.                                            *)
(***************************************************************************)
SessionProfiles ==
    {p \in IdentityProfiles : p.provider = "github" /\ p.username = "a"}

\* The operator deactivates and reactivates an identity.
ActivationInputs ==
    {new \in SettingsInputs : ~new.is_admin /\ new.permissions = NoServices}

\* Identities are resolved at the early instants only, as sessions are.
NextSessions ==
    \/ \E oauth_data \in SessionProfiles :
          now <= MaxEarly /\ CreateOrUpdateUser(oauth_data)
    \/ \E id \in 1..MaxIds, s \in LoginSecrets : CreateTokens(id, s, FALSE)
    \/ \E v \in Strings : RefreshAccessToken(v)
    \/ \E v \in Strings : RevokeRefreshToken(v)
    \/ \E id \in 1..MaxIds : remove_user(id, api_token)
    \/ \E id \in 1..MaxIds, new \in ActivationInputs :
          db_update_user_settings(id, new)
    \/ Tick

SpecSessions == Init /\ [][NextSessions]_vars

(***************************************************************************)
(* OAuthService.exchange_github_code / exchange_google_code                *)
(* (services/oauth_service.py).                                            *)
(*                                                                         *)
(* What a provider endpoint does with a request is an input: the request   *)
(* fails in transport, or it is answered with a status and a body that is  *)
(* not JSON, a JSON object or a JSON array.  A JSON string is [str |-> s], *)
(* a number [num |-> digits], null is None; an object is a function on its *)
(* keys.  The entries of the e-mail list are records of plain values.      *)
(***************************************************************************)
Num(digits) == [num |-> digits]
TransportError == [kind |-> "error"]
Text(status) == [kind |-> "text", status |-> status]
Dict(status, d) == [kind |-> "dict", status |-> status, body |-> d]
List(status, l) == [kind |-> "list", status |-> status, items |-> l]

\* str(x)
py_str(v) ==
    IF v = None THEN Str("None")
    ELSE IF "num" \in DOMAIN v THEN Str(v.num) ELSE v

\* "if x": None and "" are false.
truthy(v) == v # None /\ v # Str("")

\* email.split("@")[0] for the addresses in use.
local_part(email) ==
    CASE email = Str("a@x") -> Str("a")
      [] email = Str("b@x") -> Str("b")
      [] email = Str("c@x") -> Str("c")
      [] OTHER -> email

\* The outcome of the body of the try block: what it returns or raises,
\* and the requests it has sent by then.
returned(ret, requests) ==
    [raised |-> "", ret |-> ret, requests |-> requests]
raises(exception, requests) ==
    [raised |-> exception, ret |-> None, requests |-> requests]

\* response.json() of a response that arrived.
json_raises(http_response) == http_response.kind = "text"

\* next((e for e in emails if e["primary"]), None): the index of the first
\* primary entry, 0 when there is none.
first_primary(emails) ==
    IF \E i \in 1..Len(emails) : emails[i].primary
      THEN CHOOSE i \in 1..Len(emails) :
               /\ emails[i].primary
               /\ \A j \in 1..(i - 1) : ~emails[j].primary
      ELSE 0

\* The secondary call of exchange_github_code, GET /user/emails, and the
\* assignment to user_data["email"].  Iterating a JSON object yields its
\* keys, and e["primary"] of a key raises TypeError.
github_email(user_data, email_response) ==
    IF email_response.kind = "error"
      THEN [raised |-> "ConnectError", user_data |-> user_data]
    ELSE IF json_raises(email_response)
      THEN [raised |-> "JSONDecodeError", user_data |-> user_data]
    ELSE IF email_response.kind = "dict"
      THEN IF DOMAIN email_response.body = {}
             THEN [raised |-> "", user_data |-> user_data]
             ELSE [raised |-> "TypeError", user_data |-> user_data]
    ELSE LET emails == email_response.items
             i == first_primary(emails)
         IN  IF i = 0 THEN [raised |-> "", user_data |-> user_data]
             ELSE [raised |-> "",
                   user_data |-> [k \in DOMAIN user_data \cup {"email"} |->
                                     IF k = "email" THEN Str(emails[i].email)
                                     ELSE user_data[k]]]

\* The try block of exchange_github_code.
github_try(token_response, user_response, email_response) ==
    IF token_response.kind = "error"
      THEN raises("ConnectError", <<"token">>)
    ELSE IF json_raises(token_response)
      THEN raises("JSONDecodeError", <<"token">>)
    ELSE IF "access_token" \notin DOMAIN token_response.body
      THEN returned(None, <<"token">>)
    ELSE IF user_response.kind = "error"
      THEN raises("ConnectError", <<"token", "user">>)
    ELSE IF json_raises(user_response)
      THEN raises("JSONDecodeError", <<"token", "user">>)
    ELSE
    LET fetched == user_response.body
        asks == ~truthy(get(fetched, "email", None))
        requests == IF asks THEN <<"token", "user", "emails">>
                            ELSE <<"token", "user">>
        looked == IF asks THEN github_email(fetched, email_response)
                          ELSE [raised |-> "", user_data |-> fetched]
        user_data == looked.user_data
    IN  IF looked.raised # "" THEN raises(looked.raised, requests)
        ELSE IF "id" \notin DOMAIN user_data \/ "login" \notin DOMAIN user_data
          THEN raises("KeyError", requests)
        ELSE returned([provider |-> "github",
                       provider_id |-> py_str(user_data["id"]),
                       email |-> get(user_data, "email", None),
                       username |-> user_data["login"],
                       full_name |-> get(user_data, "name", None),
                       avatar_url |-> get(user_data, "avatar_url", None),
                       provider_data |-> user_data],
                      requests)

\* The try block of exchange_google_code.
google_try(token_response, user_response) ==
    IF token_response.kind = "error"
      THEN raises("ConnectError", <<"token">>)
    ELSE IF json_raises(token_response)
      THEN raises("JSONDecodeError", <<"token">>)
    ELSE IF "access_token" \notin DOMAIN token_response.body
      THEN returned(None, <<"token">>)
    ELSE IF user_response.kind = "error"
      THEN raises("ConnectError", <<"token", "user">>)
    ELSE IF json_raises(user_response)
      THEN raises("JSONDecodeError", <<"token", "user">>)
    ELSE
    LET user_data == user_response.body
        requests == <<"token", "user">>
    IN  IF "id" \notin DOMAIN user_data \/ "email" \notin DOMAIN user_data
          THEN raises("KeyError", requests)
        ELSE IF user_data["email"] = None
          THEN raises("AttributeError", requests)
        ELSE returned([provider |-> "google",
                       provider_id |-> user_data["id"],
                       email |-> user_data["email"],
                       username |-> local_part(user_data["email"]),
                       full_name |-> get(user_data, "name", None),
                       avatar_url |-> get(user_data, "picture", None),
                       provider_data |-> user_data],
                      requests)

\* Mutant: no except clause.
except_Exception_missing(outcome) == outcome

\* except Exception as e: ... return None
except_Exception(outcome) ==
    IF outcome.raised # "" THEN returned(None, outcome.requests) ELSE outcome

exchange_github_code(token_response, user_response, email_response) ==
    except_Exception(github_try(token_response, user_response,
                                email_response))

exchange_google_code(token_response, user_response) ==
    except_Exception(google_try(token_response, user_response))

\* What the endpoints answer.
TokenResponses ==
    { TransportError, Text(502),
      Dict(400, [error |-> Str("invalid_grant")]),
      Dict(200, [error |-> Str("bad_verification_code")]),
      Dict(200, [access_token |-> Str("gho_1")]) }

GithubUser ==
    [id |-> Num("1"), login |-> Str("a"), email |-> Str("a@x"),
     name |-> Str("A"), avatar_url |-> Str("a.png")]
GithubUserResponses ==
    { TransportError, Text(502),
      Dict(401, [message |-> Str("Bad credentials")]),
      Dict(200, GithubUser),
      Dict(200, [GithubUser EXCEPT !.email = None]),
      Dict(200, [k \in DOMAIN GithubUser \ {"email"} |-> GithubUser[k]]),
      Dict(200, [k \in DOMAIN GithubUser \ {"login"} |-> GithubUser[k]]),
      Dict(200, [k \in DOMAIN GithubUser \ {"id"} |-> GithubUser[k]]) }

Entry(email, primary, verified) ==
    [email |-> email, primary |-> primary, verified |-> verified]
EmailResponses ==
    { TransportError, Text(502),
      Dict(403, [message |-> Str("Resource not accessible")]),
      List(200, <<>>),
      List(200, <<Entry("a@x", TRUE, TRUE)>>),
      List(200, <<Entry("b@x", FALSE, TRUE), Entry("a@x", TRUE, TRUE)>>),
      List(200, <<Entry("b@x", FALSE, TRUE), Entry("c@x", TRUE, FALSE)>>),
      List(200, <<Entry("b@x", FALSE, TRUE)>>) }

GoogleUser ==
    [id |-> Str("2"), email |-> Str("b@x"), name |-> Str("B"),
     picture |-> Str("b.png")]
GoogleUserResponses ==
    { TransportError, Text(502),
      Dict(401, [error |-> Str("invalid_token")]),
      Dict(200, GoogleUser),
      Dict(200, [GoogleUser EXCEPT !.email = None]),
      Dict(200, [k \in DOMAIN GoogleUser \ {"email"} |-> GoogleUser[k]]),
      Dict(200, [k \in DOMAIN GoogleUser \ {"id"} |-> GoogleUser[k]]) }

ExchangeGithubCode(token_response, user_response, email_response) ==
    /\ LET r == exchange_github_code(token_response, user_response,
                                     email_response)
       IN  response' = [op |-> "exchange_github_code",
                        token_response |-> token_response,
                        user_response |-> user_response,
                        email_response |-> email_response,
                        raised |-> r.raised, ret |-> r.ret,
                        requests |-> r.requests]
    /\ UNCHANGED <<users, next_user_id, refresh_tokens, now, client, calls>>

ExchangeGoogleCode(token_response, user_response) ==
    /\ LET r == exchange_google_code(token_response, user_response)
       IN  response' = [op |-> "exchange_google_code",
                        token_response |-> token_response,
                        user_response |-> user_response,
                        email_response |-> TransportError,
                        raised |-> r.raised, ret |-> r.ret,
                        requests |-> r.requests]
    /\ UNCHANGED <<users, next_user_id, refresh_tokens, now, client, calls>>

NextOAuth ==
    \/ \E t \in TokenResponses, u \in GithubUserResponses,
          e \in EmailResponses : ExchangeGithubCode(t, u, e)
    \/ \E t \in TokenResponses, u \in GoogleUserResponses :
          ExchangeGoogleCode(t, u)

SpecOAuth == Init /\ [][NextOAuth]_vars

(***************************************************************************)
(* The handshake state on its own: what login writes into the state and    *)
(* what auth_callback reads out of it.  The state arrives at the callback  *)
(* as login built it (the trip through the provider changes nothing).      *)
(***************************************************************************)
UrlPieces == {"u", "|", ":", "%7C", "%3A"}

RECURSIVE TextsUpTo(_)
TextsUpTo(n) ==
    IF n = 0 THEN {<<>>}
    ELSE LET shorter == TextsUpTo(n - 1)
         IN  shorter \cup {Append(t, ch) : t \in shorter, ch \in UrlPieces}

\* Values of the redirect_uri and client_redirect_uri query parameters.
UrlTexts == TextsUpTo(MaxLen)
Nonces == {<<"nonce">>}
Providers == {"github", "google"}

BuildState(n, a, b, p) ==
    /\ response' =
          [op |-> "state_data",
           sent |-> [state_part |-> n,
                     redirect_uri |-> login_redirect_uri(p, a),
                     client_redirect_uri |-> login_client_redirect_uri(b),
                     state_provider |-> <<p>>],
           state |-> state_data(n, login_redirect_uri(p, a),
                                login_client_redirect_uri(b), p)]
    /\ UNCHANGED <<users, next_user_id, refresh_tokens, now, client, calls>>

ParseState(provider) ==
    /\ response.op = "state_data"
    /\ response' = [op |-> "parse_state", sent |-> response.sent,
                    state |-> response.state,
                    parsed |-> parse_state(response.state, provider)]
    /\ UNCHANGED <<users, next_user_id, refresh_tokens, now, client, calls>>

NextHandshake ==
    \/ \E n \in Nonces, a \in UrlTexts, b \in UrlTexts, p \in Providers :
          BuildState(n, a, b, p)
    \/ \E provider \in Providers : ParseState(provider)

SpecHandshake == Init /\ [][NextHandshake]_vars

(***************************************************************************)
(* Refresh credentials: revocation and renewal.                            *)
(***************************************************************************)
\* The stored record, if any, a presented string hashes to.
RecordsOf(v) == {r \in refresh_tokens : r.token_hash = hash_refresh_token(v)}
Renew(v) == refresh_access_token(refresh_tokens, users, v, now)
Minted(result) == result # None /\ "access_token" \in DOMAIN result

\* C1: a refresh credential whose revoked flag is set stays in the store with
\* the flag set in every later state, and refresh_access_token returns no
\* access token for its secret: neither the call that has just returned nor
\* any call that could be made in the state reached.
C1_Step ==
    \A r \in refresh_tokens :
        r.is_revoked =>
            /\ \E r2 \in refresh_tokens' :
                  r2.token_hash = r.token_hash /\ r2.is_revoked
            /\ \A r2 \in refresh_tokens' :
                  r2.token_hash = r.token_hash => r2.is_revoked
            /\ \A v \in Strings :
                  hash_refresh_token(v) = r.token_hash =>
                      /\ refresh_access_token(refresh_tokens', users', v, now') = None
                      /\ (response'.op = "refresh_access_token" /\ response'.arg = v)
                            => response'.body = None

C1_RevokedIsFinal == [][C1_Step]_vars

\* A revoked credential has just been presented for renewal, before its
\* expiry and with its owner present and active.
C1_Witness ==
    /\ response.op = "refresh_access_token"
    /\ \E r \in RecordsOf(response.arg) :
          /\ r.is_revoked
          /\ r.expires_at > now
          /\ r.user_id \in DOMAIN users
          /\ users[r.user_id].is_active

\* The subject of the access token a renewal returned.
SubjectOf(result) == result.access_token.claims.sub

\* C2 as stated: for every secret create_tokens returned for identity u,
\* refresh_access_token yields an access token with subject u whenever the
\* record is not revoked and the time is strictly before issue time + refresh
\* lifetime, and yields none once the record is revoked.
C2_Original ==
    \A r \in refresh_tokens : \A v \in Strings :
        hash_refresh_token(v) = r.token_hash =>
            /\ (~r.is_revoked /\ now < r.created_at + RefreshLifetime)
                  => (Minted(Renew(v)) /\ SubjectOf(Renew(v)) = str(r.user_id))
            /\ r.is_revoked => Renew(v) = None

\* C2, amended: the same, provided identity u is still in the store and
\* active; after revocation the result is none whatever the time.
C2_RenewUntilRevokedOrExpired ==
    \A r \in refresh_tokens : \A v \in Strings :
        hash_refresh_token(v) = r.token_hash =>
            /\ (/\ ~r.is_revoked
                /\ now < r.created_at + RefreshLifetime
                /\ r.user_id \in DOMAIN users
                /\ users[r.user_id].is_active)
                  => (Minted(Renew(v)) /\ SubjectOf(Renew(v)) = str(r.user_id))
            /\ r.is_revoked => Renew(v) = None

\* A renewal has just succeeded one tick before the credential's expiry.
C2_Witness ==
    /\ response.op = "refresh_access_token"
    /\ Minted(response.body)
    /\ response.body.access_token.claims.exp = utc_seconds(now + AccessLifetime)
    /\ \E r \in RecordsOf(response.arg) :
          /\ now = r.created_at + RefreshLifetime - 1
          /\ SubjectOf(response.body) = str(r.user_id)

(***************************************************************************)
(* Routes: logout and the OAuth callback.                                  *)
(***************************************************************************)
\* C3: POST /logout with body {refresh_token} revokes the credential that
\* matches the secret, so that POST /refresh with the same secret then
\* answers 401; when no stored credential matches, the logout answers 401.
C3_LogoutRevokes ==
    response.op = "POST /logout" =>
        LET v == strip(response.arg)
        IN  /\ RecordsOf(v) = {} => response.status = 401
            /\ (RecordsOf(v) # {} /\ response.status = 200) =>
                  /\ \A r \in RecordsOf(v) : r.is_revoked
                  /\ refresh_token_response(refresh_tokens, users,
                                            response.arg, now).status = 401

\* A user row has the profile's provider and provider id.
Registered(oauth_data) ==
    \E i \in DOMAIN users :
        /\ users[i].provider = oauth_data.provider
        /\ users[i].provider_id = oauth_data.provider_id

C4_Step ==
    (/\ response'.op = "GET /callback"
     /\ response' # response
     /\ response'.exchange = "profile"
     /\ Registered(response'.oauth_data)) =>
        /\ response'.status \in {200, 307}
        /\ response'.body # None
        /\ \E r \in refresh_tokens' \ refresh_tokens :
              r.token_hash = hash_refresh_token(response'.body.refresh_token)
        /\ \A r \in refresh_tokens' \ refresh_tokens :
              r.token_hash = hash_refresh_token(response'.body.refresh_token)

\* C4: a callback whose code exchange yields the profile of a registered
\* user hands the client the bearer pair: the response carries an access
\* token and the raw refresh secret, and every refresh record the callback
\* persists is the record of the secret handed over.
C4_CallbackDeliversPair == [][C4_Step]_vars

(***************************************************************************)
(* Access tokens: mint, verify, expiry, purpose.                           *)
(***************************************************************************)
\* The instant a held token expires: mint time + configured lifetime.
Expiry == client.minted_at + AccessLifetime
VerifyHeld == verify_access_token(client.access_token, now)

\* The claims of c come back, with an expiry and the type added.
EquivalentClaims(result, c) ==
    /\ result # None
    /\ "sub" \in DOMAIN result
    /\ \A k \in DOMAIN c \ {"exp", "type"} : k \in DOMAIN result /\ result[k] = c[k]
    /\ DOMAIN result = DOMAIN c \cup {"exp", "type"}
    /\ result.type = "access"

\* C5 as stated: verifying a minted token returns the claims it was minted
\* from at any time strictly before mint time + lifetime, and None at any
\* time after that expiry.
C5_Original ==
    client # None =>
        /\ now < Expiry => EquivalentClaims(VerifyHeld, client.data)
        /\ now > Expiry => VerifyHeld = None

\* C5, amended: verifying a minted token returns the claims it was minted
\* from at any time strictly before mint time + lifetime, and None at any
\* time one second or more after that expiry.
C5_VerifyMintUntilExpiry ==
    client # None =>
        /\ now < Expiry => EquivalentClaims(VerifyHeld, client.data)
        /\ now >= Expiry + TicksPerSecond => VerifyHeld = None

\* A token minted off a whole second was verified both before its expiry
\* (accepted) and, now, a second after it (rejected).
C5_Witness ==
    /\ client # None
    /\ client.minted_at % TicksPerSecond # 0
    /\ now >= Expiry + TicksPerSecond
    /\ response.op = "verify_access_token"
    /\ response.arg = client.access_token
    /\ response.at = now
    /\ response.body = None
    /\ EquivalentClaims(verify_access_token(client.access_token, Expiry - 1),
                        client.data)

\* C6: a minted token carries type "access" and the expiry the server
\* computed, whatever "type" or "exp" the caller's claims held; and a token
\* signed with the service key and not expired whose type is missing or is
\* not "access" verifies as None.
C6_PurposeIsAccess ==
    client # None =>
        /\ client.access_token.claims.type = "access"
        /\ client.access_token.claims.exp = utc_seconds(Expiry)
        /\ client.access_token.sig
               = sign(jwt_secret_key, client.access_token.claims)
        /\ \A tok \in WrongPurpose(client.access_token) :
              /\ jwt_decode(tok, jwt_secret_key, now).ok =>
                    verify_access_token(tok, now) = None
              /\ (response.op = "verify_access_token" /\ response.arg = tok
                    /\ jwt_decode(tok, jwt_secret_key, response.at).ok)
                      => response.body = None

\* The caller asked for type "refresh" and an expiry of its own; the token
\* minted says otherwise, and its unexpired untyped twin was just rejected.
C6_Witness ==
    /\ client # None
    /\ "type" \in DOMAIN client.data /\ client.data.type = "refresh"
    /\ now < Expiry
    /\ response.op = "verify_access_token"
    /\ response.arg = Untyped(client.access_token)
    /\ response.at = now
    /\ jwt_decode(response.arg, jwt_secret_key, now).ok
    /\ response.body = None

\* The four ways a presented token is bad.
Expired(tok, t) == jwt_decode(tok, jwt_secret_key, t).raised
                       = "ExpiredSignatureError"
BadTokens(t) ==
    IF client = None THEN {Garbage}
    ELSE Forged(client.access_token) \cup WrongPurpose(client.access_token)
            \cup {tok \in {client.access_token} :
                     /\ ~jwt_decode(tok, jwt_secret_key, t).ok
                     /\ Expired(tok, t)}

\* C7: verify_access_token answers None, and nothing else, for a token with
\* a wrong signature, a corrupt token, an expired token and a token of the
\* wrong purpose: no exception escapes and no reason is given.
C7_UniformInvalid ==
    /\ \A tok \in BadTokens(now) : verify_access_token(tok, now) = None
    /\ (response.op = "verify_access_token"
          /\ response.arg \in BadTokens(response.at))
            => response.body = None

\* An expired token has just been verified while forged and wrong-purpose
\* variants of it exist as well.
C7_Witness ==
    /\ client # None
    /\ response.op = "verify_access_token"
    /\ response.at = now
    /\ response.arg = client.access_token
    /\ ~jwt_decode(response.arg, jwt_secret_key, now).ok
    /\ Expired(response.arg, now)
    /\ response.body = None
    /\ Cardinality(BadTokens(now)) = 6

(***************************************************************************)
(* Refresh: what the caller learns, and whose state the new token shows.   *)
(***************************************************************************)
\* What the caller of POST /refresh sees of a response.
Answer(r) == [status |-> r.status, detail |-> r.detail, body |-> r.body]
Refused == [status |-> 401, detail |-> "Invalid or expired refresh token",
            body |-> None]
PostRefresh(db_tokens, v) ==
    Answer(refresh_token_response(db_tokens, users, v, now))

\* The store with record r absent, revoked, or expired by now.
StoreAbsent(r) == refresh_tokens \ {r}
StoreRevoked(r) == (refresh_tokens \ {r}) \cup {[r EXCEPT !.is_revoked = TRUE]}
StoreExpired(r) == (refresh_tokens \ {r}) \cup {[r EXCEPT !.expires_at = now]}

NeverIssued(v) == RecordsOf(strip(v)) = {}
IsRevoked(v) == \E r \in RecordsOf(strip(v)) : r.is_revoked
IsExpired(v) == \E r \in RecordsOf(strip(v)) : r.expires_at <= now

\* C8: POST /refresh answers 401 with one and the same detail for a secret
\* never issued, a revoked one and an expired one; on stores that differ
\* only in which of the three holds for the secret, the answer is the same.
C8_RefusalsIndistinguishable ==
    \A v \in Strings :
        validate_refresh_token(v).ok =>
            /\ (NeverIssued(v) \/ IsRevoked(v) \/ IsExpired(v))
                  => PostRefresh(refresh_tokens, v) = Refused
            /\ \A r \in RecordsOf(strip(v)) :
                  /\ PostRefresh(StoreAbsent(r), v) = Refused
                  /\ PostRefresh(StoreRevoked(r), v) = Refused
                  /\ PostRefresh(StoreExpired(r), v) = Refused
            /\ (response.op = "POST /refresh" /\ response.arg = v
                  /\ response.status # 200) => Answer(response) = Refused

\* An issued secret, expired by now and never revoked, has just been
\* refused, and so would a string that was never issued.
C8_Witness ==
    /\ response.op = "POST /refresh"
    /\ Answer(response) = Refused
    /\ RecordsOf(strip(response.arg)) # {}
    /\ ~IsRevoked(response.arg)
    /\ IsExpired(response.arg)
    /\ \E v \in Strings : validate_refresh_token(v).ok /\ NeverIssued(v)

\* The user row a stored record belongs to.
Owner(r) == users[r.user_id]
ClaimsOf(result) == verify_access_token(result.access_token, now)

\* C9: the access token refresh_access_token mints carries is_admin and
\* permissions as the user row holds them at the refresh, whatever they
\* were when the refresh credential was issued.
C9_CurrentSnapshot ==
    \A v \in Strings :
        Minted(Renew(v)) =>
            \A r \in RecordsOf(v) :
                /\ r.user_id \in DOMAIN users
                /\ ClaimsOf(Renew(v)).is_admin = Owner(r).is_admin
                /\ ClaimsOf(Renew(v)).permissions = Owner(r).permissions

\* The pair handed out at login says one thing about admin or permissions,
\* the user row was changed since, and the refresh just done says the new.
C9_Witness ==
    /\ client # None
    /\ response.op = "refresh_access_token"
    /\ Minted(response.body)
    /\ response.arg = client.refresh_token
    /\ \E r \in RecordsOf(response.arg) :
          /\ ClaimsOf(response.body).is_admin = Owner(r).is_admin
          /\ ClaimsOf(response.body).permissions = Owner(r).permissions
          /\ \/ ClaimsOf(client).is_admin # Owner(r).is_admin
             \/ ClaimsOf(client).permissions # Owner(r).permissions

\* A record that would renew, were its user there and active.
Usable(r) == ~r.is_revoked /\ r.expires_at > now
OwnerGone(r) == r.user_id \notin DOMAIN users
OwnerInactive(r) == r.user_id \in DOMAIN users /\ ~Owner(r).is_active

\* C10: refresh_access_token returns None, and mints nothing, when the user
\* owning the presented non-revoked, non-expired credential is no longer in
\* the store or has is_active false.
C10_NoOwnerNoToken ==
    \A v \in Strings :
        \A r \in RecordsOf(v) :
            (Usable(r) /\ (OwnerGone(r) \/ OwnerInactive(r))) =>
                /\ Renew(v) = None
                /\ (response.op = "refresh_access_token" /\ response.arg = v)
                      => ~Minted(response.body)

\* A usable credential of a deactivated user has just been refused.
C10_Witness ==
    /\ response.op = "refresh_access_token"
    /\ response.body = None
    /\ \E r \in RecordsOf(response.arg) : Usable(r) /\ OwnerInactive(r)

(***************************************************************************)
(* Renewals and revocations served at the same time.                       *)
(***************************************************************************)
IsRefresh(call) == call.op = "refresh_access_token"
IsRevoke(call) == call.op = "revoke_refresh_token"
Done(call) == call # Idle /\ call.pc = "done"
SameSecret(a, b) == hash_refresh_token(a.arg) = hash_refresh_token(b.arg)

\* The call of c returns in this step.
Returns(c) == calls[c] # Idle /\ calls[c].pc # "done" /\ calls'[c].pc = "done"

\* A renewal that arrived when its secret was usable, the secret being
\* usable still, has succeeded.
C11_BothSucceed ==
    \A c \in Callers :
        (IsRefresh(calls[c]) /\ Done(calls[c]) /\ calls[c].usable
            /\ Renew(calls[c].arg) # None) => Minted(calls[c].ret)

\* No step of a renewal writes to a table.
C11_Step ==
    \A c \in Callers :
        (calls'[c] # calls[c] /\ IsRefresh(calls'[c])) =>
            UNCHANGED <<users, next_user_id, refresh_tokens>>

\* C11: concurrent renewals presenting the same non-revoked, non-expired
\* secret all succeed however their statements interleave, and a renewal
\* leaves the stored records as they are.
C11_RefreshKeepsStore == []C11_BothSucceed /\ [][C11_Step]_vars

\* Two renewals of one secret have both returned an access token.
C11_Witness ==
    \E c, d \in Callers :
        /\ c # d
        /\ IsRefresh(calls[c]) /\ IsRefresh(calls[d])
        /\ calls[c].arg = calls[d].arg
        /\ Done(calls[c]) /\ Done(calls[d])
        /\ Minted(calls[c].ret) /\ Minted(calls[d].ret)
        /\ \A r \in RecordsOf(calls[c].arg) : ~r.is_revoked

\* A revocation of the secret of call c has returned True.
RevokedBefore(c) ==
    \E d \in Callers :
        /\ IsRevoke(calls[d]) /\ Done(calls[d])
        /\ calls[d].ret = TRUE
        /\ SameSecret(calls[d], calls[c])

C12_Step ==
    \A c \in Callers :
        (IsRefresh(calls[c]) /\ Returns(c) /\ Minted(calls'[c].ret))
            => ~RevokedBefore(c)

\* C12: however a renewal and a revocation of one secret interleave, no
\* renewal returns an access token once a revocation of the secret has
\* returned True.
C12_NoRenewAfterRevoke == [][C12_Step]_vars

\* revoke_refresh_token applied twice in a row to the tables as they are.
RevokeOnce(v) == revoke_refresh_token(refresh_tokens, v)
RevokeTwice(v) == revoke_refresh_token(RevokeOnce(v).refresh_tokens, v)

\* A revocation that returned True leaves its credential revoked for good,
\* and a second revocation in a row changes nothing and returns the same.
C13_StaysRevoked ==
    /\ \A c \in Callers :
          (IsRevoke(calls[c]) /\ Done(calls[c]) /\ calls[c].ret = TRUE) =>
              /\ RecordsOf(calls[c].arg) # {}
              /\ \A r \in RecordsOf(calls[c].arg) : r.is_revoked
    /\ \A v \in Strings :
          /\ RevokeTwice(v).refresh_tokens = RevokeOnce(v).refresh_tokens
          /\ RevokeTwice(v).ret = RevokeOnce(v).ret
          /\ RevokeOnce(v).ret = FALSE <=> RecordsOf(v) = {}

\* A revocation returning on an already revoked credential writes nothing
\* new and returns True; one returning False found no record.
C13_Step ==
    \A c \in Callers :
        (IsRevoke(calls[c]) /\ Returns(c)) =>
            /\ calls'[c].ret = FALSE => RecordsOf(calls[c].arg) = {}
            /\ (RecordsOf(calls[c].arg) # {}
                  /\ \A r \in RecordsOf(calls[c].arg) : r.is_revoked)
                  => calls'[c].ret = TRUE /\ refresh_tokens' = refresh_tokens

\* C13: a second revoke_refresh_token of a secret raises nothing, leaves
\* the store as the first left it and the credential revoked; False is
\* returned only when no record has the secret's hash.
C13_RevokeIdempotent == []C13_StaysRevoked /\ [][C13_Step]_vars

\* Two revocations of one secret have both returned True.
C13_Witness ==
    \E c, d \in Callers :
        /\ c # d
        /\ IsRevoke(calls[c]) /\ IsRevoke(calls[d])
        /\ calls[c].arg = calls[d].arg
        /\ Done(calls[c]) /\ Done(calls[d])
        /\ calls[c].ret = TRUE /\ calls[d].ret = TRUE
        /\ \A r \in RecordsOf(calls[c].arg) : r.is_revoked

(***************************************************************************)
(* The OAuth handshake: state, callback, login.                            *)
(***************************************************************************)
\* C14: what auth_callback parses out of the state login built from a
\* nonce, a provider callback URL, a client redirect URL and a provider tag
\* is exactly these four, also when the URLs hold the separator or its
\* percent-encoded form.
C14_StateRoundTrip ==
    response.op = "parse_state" => response.parsed = response.sent

\* The state holds the four fields login packs.
WellFormedState(state) == Len(split(unquote(state), "|")) >= 4

\* The parameters in the query of a URL, and their keys.
QueryOf(url) == split(join("?", Tail(split(url, "?"))), "&")
KeysOf(url) == {param_key(QueryOf(url)[i]) : i \in 1..Len(QueryOf(url))}
PathOf(url) == split(url, "?")[1]

\* C15: a callback whose state is not a well-formed packed four-tuple is
\* answered with a redirect to a URL carrying an error code; no login is
\* completed with defaults in the place of the missing fields.  (Stated
\* for the callbacks that get past the code exchange.)
C15_MalformedStateFails ==
    (/\ response.op = "GET /callback"
     /\ response.exchange \in {"none", "profile"}
     /\ ~WellFormedState(response.state)) =>
        /\ response.status = 307
        /\ "error" \in KeysOf(response.location)

\* The callback answered in this step, the exchange having come to what.
CallbackStep(what) ==
    /\ response'.op = "GET /callback"
    /\ response'.exchange = what

StoreUnchanged == UNCHANGED <<users, next_user_id, refresh_tokens>>

C16_Step ==
    CallbackStep("none") =>
        /\ response'.status = 307
        /\ PathOf(response'.location)
              = PathOf(parse_state(response'.state,
                                   response'.provider).client_redirect_uri)
        /\ \E i \in 1..Len(QueryOf(response'.location)) :
              QueryOf(response'.location)[i] = <<"error=oauth_failed">>
        /\ "success" \notin KeysOf(response'.location)
        /\ response'.body = None
        /\ StoreUnchanged

\* C16: when the code exchange yields nothing, the callback redirects to
\* the client redirect target with error=oauth_failed and without a
\* "success" parameter in the query, and no user row and no refresh record
\* is created.
C16_ExchangeFailureRedirects == [][C16_Step]_vars

\* The exchange failed for a callback whose state names a client URL with
\* success=true in its query.
C16_Witness ==
    /\ response.op = "GET /callback"
    /\ response.exchange = "none"
    /\ WellFormedState(response.state)
    /\ "success" \in KeysOf(parse_state(response.state,
                                        response.provider).client_redirect_uri)
    /\ "success" \notin KeysOf(response.location)
    /\ "error" \in KeysOf(response.location)

\* No user row has the profile's provider and provider id.
Unregistered(oauth_data) == ~Registered(oauth_data)

C17_Step ==
    (CallbackStep("profile") /\ Unregistered(response'.oauth_data)) =>
        /\ response'.status = 307
        /\ "error" \in KeysOf(response'.location)
        /\ response'.body = None
        /\ StoreUnchanged

\* C17: when the exchange yields a profile no user row matches by provider
\* and provider id, the callback redirects with an error parameter (no
\* exception, no 5xx), creates no user and mints no token.
C17_UnregisteredRedirects == [][C17_Step]_vars

\* C18: GET /login/{provider} answers 400 for a provider other than github
\* and google, and for these two 200 with auth_url, pointing at the
\* provider's authorization endpoint and holding the state, and state; the
\* store is left alone.
C18_LoginAnswers ==
    response.op = "GET /login" =>
        IF response.provider \notin Providers
          THEN response.status = 400
          ELSE /\ response.status = 200
               /\ response.body # None
               /\ response.body.auth_url
                     = (IF response.provider = "github"
                          THEN get_github_auth_url(response.body.state)
                          ELSE get_google_auth_url(response.body.state))

(***************************************************************************)
(* The users table: what identifies a row.                                 *)
(***************************************************************************)
\* C19: in every reachable state, concurrent pre-registrations, identity
\* resolutions and backup logins included, no two user rows have the same
\* (provider, provider_id).
C19_UniqueProviderIdentity ==
    \A i, j \in DOMAIN users :
        (/\ users[i].provider = users[j].provider
         /\ users[i].provider_id = users[j].provider_id) => i = j

C20_UniqueEmailUsername ==
    \A i, j \in DOMAIN users :
        (users[i].email = users[j].email
            \/ users[i].username = users[j].username) => i = j

\* The e-mail address and name the row has once the commit of call c is
\* through, and the row it writes (0: a new row).  An update writes the
\* e-mail address only when the column is among the modified ones.
AssignsEmail(call) ==
    IF call.op = "backup_login"
      THEN profile_email(call.arg.username, backup_users[call.arg.username])
      ELSE call.arg.email
WritesEmail(call) ==
    IF call.op # "pre_register_user" /\ call.found # 0
          /\ "email" \notin call.modified
      THEN users[call.found].email
      ELSE AssignsEmail(call)
WritesUsername(call) ==
    IF call.op = "pre_register_user" THEN call.arg.username
    ELSE IF call.found # 0 THEN users[call.found].username
    ELSE IF call.op = "backup_login" THEN backup_username(call.arg.username)
    ELSE call.arg.username
WritesRow(call) == IF call.op = "pre_register_user" THEN 0 ELSE call.found

WouldDuplicate(call) ==
    \E i \in DOMAIN users \ {WritesRow(call)} :
        \/ users[i].email = WritesEmail(call)
        \/ users[i].username = WritesUsername(call)

\* A commit that would bring a second row with an e-mail address or name
\* already there fails and leaves the table as it is.
C20_Step ==
    \A c \in Callers :
        (calls[c] # Idle /\ calls[c].pc = "commit" /\ calls'[c] # calls[c]
            /\ WouldDuplicate(calls[c])) =>
              /\ calls'[c].pc = "done"
              /\ calls'[c].raised = "IntegrityError"
              /\ users' = users

\* C20: no two user rows share an e-mail address and no two a username; a
\* create or update that would make a duplicate (create_or_update_user
\* overwriting the e-mail address, pre-register, backup login) fails and
\* leaves the users table unchanged.
C20_NoDuplicateEmailUsername == []C20_UniqueEmailUsername /\ [][C20_Step]_vars

\* create_or_update_user has just failed to overwrite a row's e-mail
\* address with that of another row.
C20_Witness ==
    \E c \in Callers :
        /\ calls[c].op = "create_or_update_user"
        /\ calls[c].pc = "done"
        /\ calls[c].found # 0
        /\ calls[c].raised = "IntegrityError"
        /\ calls[c].found \in DOMAIN users
        /\ users[calls[c].found].email # calls[c].arg.email
        /\ \E i \in DOMAIN users : users[i].email = calls[c].arg.email

(***************************************************************************)
(* C21 - C25: POST /backup-login.                                          *)
(***************************************************************************)
IsBackup(r) == r.op = "POST /backup-login"

\* The request of answer r passes the request model.
ValidRequest(r) ==
    /\ validate_username(r.username).raised = ""
    /\ validate_password(r.password).raised = ""
RequestName(r) == validate_username(r.username).ret

\* The environment of answer r, read as the prose states it.
InvalidJson(env) ==
    env.BACKUP_USERS # "" /\ json_loads(env.BACKUP_USERS).raised # ""
Configured(env) ==
    IF env.BACKUP_USERS # ""
      THEN IF InvalidJson(env) THEN <<>> ELSE json_loads(env.BACKUP_USERS).ret
    ELSE IF /\ env.BACKUP_ADMIN_USERNAME # ""
            /\ env.BACKUP_ADMIN_PASSWORD_HASH # [sha256 |-> ""]
      THEN env.BACKUP_ADMIN_USERNAME :>
               [password_hash |-> env.BACKUP_ADMIN_PASSWORD_HASH]
    ELSE <<>>
NoneConfigured(env) == ~InvalidJson(env) /\ DOMAIN Configured(env) = {}

NameConfigured(r) == RequestName(r) \in DOMAIN Configured(r.env)
PasswordMismatch(r) ==
    /\ NameConfigured(r)
    /\ Configured(r.env)[RequestName(r)].password_hash
          # [sha256 |-> r.password]

StoreUntouched ==
    /\ users' = users
    /\ next_user_id' = next_user_id
    /\ refresh_tokens' = refresh_tokens

C21_Step ==
    (IsBackup(response') /\ ValidRequest(response')
        /\ ~InvalidJson(response'.env) /\ PasswordMismatch(response')) =>
          /\ response'.status = 401
          /\ response'.body = None
          /\ StoreUntouched

\* C21: a backup login whose username is configured but whose password
\* does not hash to the configured value answers 401 and leaves the store
\* as it is: no user row is created or updated, no access token and no
\* refresh credential is issued.
C21_WrongPasswordRefused == [][C21_Step]_vars

\* admin has logged in; the wrong password for admin has just been refused.
C21_Witness ==
    /\ IsBackup(response) /\ ValidRequest(response)
    /\ PasswordMismatch(response)
    /\ response.status = 401
    /\ \E i \in DOMAIN users : users[i].provider_id = RequestName(response)
    /\ refresh_tokens # {}

C22_Step ==
    (IsBackup(response') /\ ValidRequest(response')) =>
        /\ NoneConfigured(response'.env) => response'.status = 503
        /\ InvalidJson(response'.env) => response'.status = 500
        /\ (/\ ~NoneConfigured(response'.env)
            /\ ~InvalidJson(response'.env)
            /\ (~NameConfigured(response') \/ PasswordMismatch(response')))
              => response'.status = 401
        /\ (\/ NoneConfigured(response'.env)
            \/ InvalidJson(response'.env)
            \/ ~NameConfigured(response')
            \/ PasswordMismatch(response'))
              => response'.body = None /\ StoreUntouched

\* C22: backup_login answers 503 when no backup user is configured,
\* whatever the credentials; 500 when BACKUP_USERS is set and is not valid
\* JSON; 401 when the configuration is valid and the username is not
\* configured or the password does not match; none of these creates a user
\* row or a credential.
C22_ConfigurationErrors == [][C22_Step]_vars

\* The break-glass path was configured and used, then switched off: the
\* credentials that worked are answered 503.
C22_Witness ==
    /\ IsBackup(response) /\ ValidRequest(response)
    /\ NoneConfigured(response.env)
    /\ response.status = 503
    /\ \E i \in DOMAIN users :
          /\ users[i].provider_id = RequestName(response)
          /\ [sha256 |-> response.password] = [sha256 |-> "correct-horse"]
    /\ refresh_tokens # {}

BackupRows == {i \in DOMAIN users : users[i].provider = "backup"}

\* One row per backup username; a successful login answers with the id of
\* the row of its username.
C23_OneRowPerName ==
    /\ \A i, j \in BackupRows :
          users[i].provider_id = users[j].provider_id => i = j
    /\ (IsBackup(response) /\ response.status = 200) =>
          /\ response.body.user.id \in BackupRows
          /\ users[response.body.user.id].provider_id = RequestName(response)

\* A row keeps its id and its username for good.
C23_Step ==
    \A i \in BackupRows :
        /\ i \in DOMAIN users'
        /\ users'[i].provider = "backup"
        /\ users'[i].provider_id = users[i].provider_id

\* C23: successful backup logins with the same configured username resolve
\* to the same user row: there is exactly one row for the username and
\* every answer carries its id; distinct configured usernames have
\* distinct rows.
C23_SameIdentity == []C23_OneRowPerName /\ [][C23_Step]_vars

\* admin has logged in twice and ops once.
C23_Witness ==
    /\ IsBackup(response) /\ response.status = 200
    /\ Cardinality(BackupRows) = 2
    /\ Cardinality({t \in refresh_tokens :
                       t.user_id = response.body.user.id}) = 2

AllowedUsername(text) ==
    /\ \A i \in 1..Len(text) : text[i] \in WordPieces
    /\ len(text) >= 1 /\ len(text) <= 50
AllowedPassword(v) == piece_len(v) >= 8 /\ piece_len(v) <= 100

\* C24: backup-login gets past validation only with a username made of
\* characters of [A-Za-z0-9_.-], 1 to 50 of them, and a password of 8 to
\* 100 characters; any other request is answered 422 with the store as it
\* was.
C24_OnlyValidAccepted ==
    IsBackup(response) =>
        (response.status # 422 <=>
            (AllowedUsername(response.username)
                /\ AllowedPassword(response.password)))

C25_Step ==
    (/\ IsBackup(response') /\ response'.status = 200
     /\ response' # response
     /\ response'.body.user.id \in DOMAIN users) =>
        users'[response'.body.user.id].last_login = [at |-> now]

\* C25: a successful backup login of a user row that already exists sets
\* the row's last_login to the time of the login.
C25_LastLoginUpdated == [][C25_Step]_vars

(***************************************************************************)
(* C26, C27: create_tokens and the refresh_tokens table.                   *)
(***************************************************************************)
IsCreateTokens(r) == r.op = "create_tokens"

\* The rows holding the digest of the raw secret v.
RowsOf(rows, v) == {r \in rows : r.token_hash = [sha256 |-> v]}

\* A pair in hand means its row is in the table (rows are never deleted).
C26_PairHasRow ==
    (IsCreateTokens(response) /\ response.body # None) =>
        /\ response.raised = ""
        /\ \E r \in RowsOf(refresh_tokens, response.body.refresh_token) :
              r.user_id = response.arg

C26_Step ==
    (IsCreateTokens(response') /\ response' # response) =>
        IF response'.raised = ""
          THEN /\ response'.body # None
               /\ \E r \in refresh_tokens' \ refresh_tokens :
                     /\ refresh_tokens' = refresh_tokens \cup {r}
                     /\ r \in RowsOf(refresh_tokens',
                                     response'.body.refresh_token)
          ELSE /\ response'.body = None
               /\ refresh_tokens' = refresh_tokens

\* C26: create_tokens hands an access token to its caller only if the
\* refresh-token row was committed; when the commit fails the call raises
\* and returns neither an access token nor a refresh secret.
C26_AllOrNothing == []C26_PairHasRow /\ [][C26_Step]_vars

\* A call of create_tokens has just failed to commit its row.
C26_Witness ==
    /\ IsCreateTokens(response)
    /\ response.raised = "IntegrityError"
    /\ response.body = None
    /\ refresh_tokens # {}

\* Does the answer carry a raw secret?
CarriesSecret(r) ==
    /\ "body" \in DOMAIN r
    /\ r.body # None
    /\ "refresh_token" \in DOMAIN r.body

C27_HashOnly ==
    /\ \A r \in refresh_tokens :
          /\ \E s \in Secrets :
                r.token_hash = [sha256 |-> token_urlsafe(s)]
          /\ \A v \in Strings : r.token_hash # v
    /\ CarriesSecret(response) => IsCreateTokens(response)

\* The raw secret comes out of the call that drew it and of no other step.
C27_Step ==
    (CarriesSecret(response') /\ response' # response) =>
        /\ IsCreateTokens(response')
        /\ RowsOf(refresh_tokens, response'.body.refresh_token) = {}
        /\ RowsOf(refresh_tokens', response'.body.refresh_token) # {}

\* C27: every refresh-token row holds the one-way hash of a secret that
\* create_tokens returned, never the raw secret; the raw secret is handed
\* to the caller of create_tokens once and no later operation reads it
\* back from the store.
C27_SecretNotStored == []C27_HashOnly /\ [][C27_Step]_vars

\* A secret was issued and its row is in the table; a later renewal with
\* it has been answered.
C27_Witness ==
    /\ response.op = "refresh_access_token"
    /\ response.body # None
    /\ RowsOf(refresh_tokens, response.arg) # {}

(***************************************************************************)
(* C28 - C30: AuthService.create_or_update_user.                           *)
(***************************************************************************)
IsResolve(r) == r.op = "create_or_update_user"

\* The rows of the (provider, provider_id) of profile p.
RowsFor(db_users, p) ==
    {i \in DOMAIN db_users :
        /\ db_users[i].provider = p.provider
        /\ db_users[i].provider_id = p.provider_id}

\* Every row but row i is as it was, and no row came or went but row i.
OthersKept(i) ==
    /\ DOMAIN users' \ {i} = DOMAIN users \ {i}
    /\ \A j \in DOMAIN users \ {i} : users'[j] = users[j]

\* A call that raises writes nothing.
ResolveFailed == response'.body = None /\ users' = users

C28_Step ==
    (IsResolve(response') /\ response' # response
        /\ RowsFor(users, response'.arg) # {}) =>
      \E i \in RowsFor(users, response'.arg) :
        /\ response'.found = i
        /\ IF response'.raised # "" THEN ResolveFailed
           ELSE /\ users'[i].email = response'.arg.email
                /\ users'[i].full_name = response'.arg.full_name
                /\ users'[i].avatar_url = response'.arg.avatar_url
                /\ users'[i].provider_data = response'.arg.provider_data
                /\ users'[i].last_login = [at |-> now]
                /\ users'[i].id = users[i].id
                /\ users'[i].username = users[i].username
                /\ users'[i].is_admin = users[i].is_admin
                /\ users'[i].is_active = users[i].is_active
                /\ users'[i].permissions = users[i].permissions
                /\ response'.body = users'[i]
                /\ OthersKept(i) /\ i \in DOMAIN users'

\* C28: when create_or_update_user finds a row for the profile's
\* (provider, provider_id), it overwrites email, full name, avatar,
\* provider data and last_login from the profile and leaves id, username,
\* is_admin, is_active and permissions as they were, also when the
\* profile's username is not the stored one.  (A call the unique index on
\* email rejects raises and writes nothing.)
C28_UpdateFrame == [][C28_Step]_vars

\* A row the operator made an administrator has been updated from a
\* profile with another username, later than it was created.
C28_Witness ==
    /\ IsResolve(response) /\ response.raised = "" /\ response.found # 0
    /\ response.body.username # response.arg.username
    /\ response.body.email = response.arg.email
    /\ response.body.is_admin
    /\ response.body.last_login = [at |-> now] /\ now > 0

C29_Step ==
    (IsResolve(response') /\ response' # response
        /\ RowsFor(users, response'.arg) = {}) =>
      /\ response'.found = 0
      /\ IF response'.raised # "" THEN ResolveFailed
         ELSE \E i \in DOMAIN users' \ DOMAIN users :
                /\ OthersKept(i)
                /\ RowsFor(users', response'.arg) = {i}
                /\ users'[i].id = i
                /\ users'[i].is_admin = FALSE
                /\ users'[i].permissions = NoServices
                /\ users'[i].is_active = TRUE
                /\ users'[i].username = response'.arg.username
                /\ users'[i].email = response'.arg.email
                /\ users'[i].provider = response'.arg.provider
                /\ users'[i].provider_id = response'.arg.provider_id
                /\ response'.body = users'[i]

\* C29: when create_or_update_user finds no row for the profile's
\* (provider, provider_id), it creates exactly one row, with is_admin
\* false, no permitted service, is_active true and the username, email,
\* provider and provider_id of the profile.  (A call a unique index
\* rejects raises and writes nothing.)
C29_CreateDefaults == [][C29_Step]_vars

\* A second identity has just been created next to one that exists.
C29_Witness ==
    /\ IsResolve(response) /\ response.raised = "" /\ response.found = 0
    /\ response.body.id \in DOMAIN users
    /\ users[response.body.id] = response.body
    /\ Cardinality(DOMAIN users) = 2

\* The last call and this one are for the same (provider, provider_id).
SamePair(p, q) == p.provider = q.provider /\ p.provider_id = q.provider_id

C30_Step ==
    (/\ IsResolve(response) /\ response.raised = ""
     /\ IsResolve(response') /\ response' # response
     /\ SamePair(response.arg, response'.arg)) =>
        /\ RowsFor(users', response'.arg) = {response.body.id}
        /\ response'.found = response.body.id
        /\ response'.raised = "" => response'.body.id = response.body.id
        /\ response'.arg = response.arg => response'.raised = ""

\* C30: two calls of create_or_update_user in a row for the same
\* (provider, provider_id) leave exactly one row for the pair, and the
\* second call finds and returns the row the first one returned.
C30_SequentialIdempotent == [][C30_Step]_vars

\* The first call created the row, the second call, with the same profile,
\* has found and returned it.
C30_Witness ==
    /\ IsResolve(response) /\ response.raised = "" /\ response.found # 0
    /\ response.body.username = response.arg.username
    /\ response.body.email = response.arg.email
    /\ Cardinality(RowsFor(users, response.arg)) = 1
    /\ now > 0

(***************************************************************************)
(* C31: backup login and the settings of a row that exists.                *)
(***************************************************************************)
\* What the environment of answer r configures for the request's username.
ConfiguredAdmin(r) ==
    LET user_config == load_backup_users(r.env).backup_users[RequestName(r)]
    IN  get(user_config, "is_admin", FALSE)
ConfiguredPermissions(r) ==
    LET user_config == load_backup_users(r.env).backup_users[RequestName(r)]
    IN  get(user_config, "permissions", NoServices)

C31_Step ==
    (/\ IsBackup(response') /\ response'.status = 200
     /\ response' # response
     /\ response'.body.user.id \in DOMAIN users) =>
        LET id == response'.body.user.id
            stored == users[id]
        IN  /\ users'[id].is_admin = stored.is_admin
            /\ users'[id].permissions = stored.permissions
            /\ response'.body.user.is_admin = stored.is_admin
            /\ response'.body.user.permissions = stored.permissions
            /\ response'.body.access_token.claims.is_admin = stored.is_admin
            /\ response'.body.access_token.claims.permissions
                  = stored.permissions

\* C31: a successful backup login for a username whose row exists leaves
\* the row's is_admin and permissions as stored, also when the configured
\* values for the username have changed; the answer and the access token
\* carry the stored values, not the configured ones.
C31_StoredSettingsWin == [][C31_Step]_vars

\* A login has succeeded under a configuration whose is_admin and
\* permissions for the username are not the ones of the row.
C31_Witness ==
    /\ IsBackup(response) /\ response.status = 200
    /\ response.body.user.is_admin # ConfiguredAdmin(response)
    /\ response.body.user.permissions # ConfiguredPermissions(response)
    /\ users[response.body.user.id].is_admin = response.body.user.is_admin
    /\ response.body.access_token.claims.is_admin
          = response.body.user.is_admin

(***************************************************************************)
(* C32, C33, C34: the code exchanges of OAuthService.                      *)
(***************************************************************************)
IsExchange(r) == r.op \in {"exchange_github_code", "exchange_google_code"}
IsGithub(r) == r.op = "exchange_github_code"

Arrived(http_response) == http_response.kind # "error"
Parsed(http_response) == http_response.kind \in {"dict", "list"}
HasField(http_response, key) ==
    /\ http_response.kind = "dict"
    /\ key \in DOMAIN http_response.body

\* The token step gave an access token.
TokenStepOk(r) == HasField(r.token_response, "access_token")

\* The fields the profile must have.
RequiredFields(r) ==
    IF IsGithub(r) THEN {"id", "login"} ELSE {"id", "email"}
ProfileComplete(r) ==
    /\ \A k \in RequiredFields(r) : HasField(r.user_response, k)
    /\ ~IsGithub(r) => r.user_response.body["email"] # None

\* The GitHub profile shows no e-mail address, so the list is asked for.
AsksEmails(r) ==
    /\ IsGithub(r) /\ TokenStepOk(r) /\ r.user_response.kind = "dict"
    /\ ~truthy(get(r.user_response.body, "email", None))

\* A transport failure, an unparseable response, a token response with no
\* access_token, or a profile short of a required field.
ExchangeFailed(r) ==
    \/ ~TokenStepOk(r)
    \/ ~Parsed(r.user_response)
    \/ ~ProfileComplete(r)
    \/ AsksEmails(r) /\ ~Parsed(r.email_response)

\* C32: exchange_github_code and exchange_google_code raise nothing; on a
\* transport failure, an unparseable response, a token response without
\* access_token or a profile short of id, login (GitHub) or id, email
\* (Google) they return None; and when the token step fails the token
\* request is the only request sent.
C32_FailuresCollapse ==
    IsExchange(response) =>
        /\ response.raised = ""
        /\ ExchangeFailed(response) => response.ret = None
        /\ ~TokenStepOk(response) => response.requests = <<"token">>

\* The token step succeeded, the profile request was sent and failed in
\* transport: nothing is raised and None is returned.
C32_Witness ==
    /\ IsExchange(response) /\ TokenStepOk(response)
    /\ ~Arrived(response.user_response)
    /\ response.requests = <<"token", "user">>
    /\ response.raised = "" /\ response.ret = None

\* The responses to the requests that were sent.
Consulted(r) ==
    {r.token_response}
        \cup (IF Len(r.requests) >= 2 THEN {r.user_response} ELSE {})
        \cup (IF Len(r.requests) >= 3 THEN {r.email_response} ELSE {})
Non2xx(http_response) ==
    Arrived(http_response) /\ http_response.status \notin 200..299

\* C33: an exchange returns None or a profile whose provider_id, email and
\* username are all there, and it returns None when an endpoint answered
\* with a status outside 200..299.
C33_ProfileComplete ==
    IsExchange(response) =>
        /\ response.ret # None =>
              /\ response.ret.provider_id # None
              /\ response.ret.email # None
              /\ response.ret.username # None
        /\ (\E h \in Consulted(response) : Non2xx(h)) => response.ret = None

\* The entries of the list that are primary and verified.
VerifiedPrimary(r) ==
    IF r.email_response.kind = "list"
      THEN {Str(r.email_response.items[i].email) :
              i \in {j \in 1..Len(r.email_response.items) :
                        /\ r.email_response.items[j].primary
                        /\ r.email_response.items[j].verified}}
      ELSE {}

\* C34: when the GitHub profile shows no e-mail address the list of
\* addresses is asked for, and an address in the returned profile is a
\* primary, verified entry of that list.
C34_VerifiedPrimary ==
    (IsExchange(response) /\ AsksEmails(response)) =>
        /\ response.requests = <<"token", "user", "emails">>
        /\ (response.ret # None /\ response.ret.email # None) =>
              response.ret.email \in VerifiedPrimary(response)

(***************************************************************************)
(* C35: the rows of refresh_tokens over the life of an identity.           *)
(***************************************************************************)
\* The row as revoke_refresh_token leaves it.
Revoked(r) == [r EXCEPT !.is_revoked = TRUE]

C35_Step ==
    \A r \in refresh_tokens :
        \/ r \in refresh_tokens'
        \/ /\ IsRevoke(response')
           /\ r.token_hash = hash_refresh_token(response'.arg)
           /\ Revoked(r) \in refresh_tokens'
           /\ r \notin refresh_tokens'

\* C35: a row of refresh_tokens stays in the table with the user_id,
\* token_hash and expires_at it was created with; the one change a step
\* makes to a row is is_revoked becoming true, made by revoke_refresh_token
\* to the row whose token_hash is the digest of the presented secret.
C35_RowsOnlyRevoked == [][C35_Step]_vars

\* A session has just been revoked while another session, of the same
\* user, is still live.
C35_Witness ==
    /\ IsRevoke(response) /\ response.ret = TRUE
    /\ \E r1, r2 \in refresh_tokens :
          /\ r1.token_hash = hash_refresh_token(response.arg)
          /\ r1.is_revoked
          /\ r2.token_hash # r1.token_hash
          /\ r2.user_id = r1.user_id
          /\ ~r2.is_revoked

(***************************************************************************)
(* C36: verify_access_token and the store.                                 *)
(***************************************************************************)
\* The access tokens create_tokens hands out for the rows
\* create_or_update_user creates, and a string that is no token.
SessionTokens ==
    {create_access_token(access_claims(oauth_user(id, p, t)), t) :
        id \in 1..MaxIds, p \in SessionProfiles, t \in 0..MaxEarly}
    \cup {Garbage}

\* No refresh credential of the user is live.
NoLiveSession(id) ==
    /\ \E r \in refresh_tokens : r.user_id = id
    /\ \A r \in refresh_tokens : r.user_id = id => r.is_revoked

\* A step that writes to the store while the clock stands.
StoreWritten ==
    /\ now' = now
    /\ users' # users \/ refresh_tokens' # refresh_tokens

C36_Step ==
    StoreWritten =>
        \A token \in SessionTokens :
            (verify_access_token(token, now))' = verify_access_token(token, now)

\* C36: as long as the clock stands, verify_access_token answers the same
\* for a token whatever happens to the store in between: the session's
\* refresh credential is revoked, the user is deactivated, the user row is
\* deleted.
C36_VerifyIgnoresStore == [][C36_Step]_vars

\* The user's sessions are revoked and the row is gone (or deactivated),
\* and its access token still verifies to its claims.
C36_Witness ==
    \E id \in 1..MaxIds, token \in SessionTokens \ {Garbage} :
        /\ token.claims.sub = str(id)
        /\ NoLiveSession(id)
        /\ id \notin DOMAIN users
        /\ \E i \in DOMAIN users : ~users[i].is_active
        /\ verify_access_token(token, now) = token.claims

(***************************************************************************)
(* C37: the refresh credentials of a removed user.                         *)
(***************************************************************************)
\* The row's owner is not in users: the user was removed.
Orphan(r) == r.user_id \notin DOMAIN users

\* The presented strings whose digest the row holds.
SecretsOf(r) == {v \in Strings : hash_refresh_token(v) = r.token_hash}

\* Presenting the secret of a removed user's credential yields nothing.
C37_OrphanYieldsNothing ==
    \A r \in refresh_tokens :
        Orphan(r) =>
            \A v \in SecretsOf(r) :
                refresh_access_token(refresh_tokens, users, v, now) = None

C37_Step ==
    \* removing a user leaves refresh_tokens as it is
    /\ (\E id \in DOMAIN users : id \notin DOMAIN users') =>
           refresh_tokens' = refresh_tokens
    \* the credentials of a removed user stay, and stay without an owner
    /\ \A r \in refresh_tokens :
           Orphan(r) =>
               /\ r.user_id \notin DOMAIN users'
               /\ \E r2 \in refresh_tokens' :
                     r2.token_hash = r.token_hash /\ r2.user_id = r.user_id
    \* a renewal mints for the owner of the credential, who is in users
    /\ (/\ response'.op = "refresh_access_token"
        /\ response' # response
        /\ response'.body # None) =>
           \E r \in RowsOf(refresh_tokens', response'.arg) :
               /\ r.user_id \in DOMAIN users'
               /\ response'.body.access_token.claims.sub = str(r.user_id)

\* C37: once DELETE /admin/users/{id} has removed a user, the user's
\* refresh_tokens rows stay in the table, refresh_access_token returns None
\* for their secrets from then on, and no renewal mints a token for a user
\* created later.
C37_RemovedNeverRenews == []C37_OrphanYieldsNothing /\ [][C37_Step]_vars

\* The secret of a removed user's credential, neither revoked nor expired,
\* has just been presented and refused while the end user has a new row.
C37_Witness ==
    /\ response.op = "refresh_access_token"
    /\ response.body = None
    /\ \E r \in RowsOf(refresh_tokens, response.arg) :
          /\ Orphan(r) /\ ~r.is_revoked /\ r.expires_at > now
          /\ \E i \in DOMAIN users : i > r.user_id /\ users[i].is_active

(***************************************************************************)
(* C38: where is_admin and permissions of a users row come from.           *)
(***************************************************************************)
\* The entry of BACKUP_USERS a backup row was created from is an
\* administrator's.
ConfiguredAsAdmin(user) ==
    /\ user.provider = "backup"
    /\ \E name \in DOMAIN backup_users :
          /\ user.username = backup_username(name)
          /\ get(backup_users[name], "is_admin", FALSE)

C38_AdminOnlyFromBackup ==
    \A i \in DOMAIN users : users[i].is_admin => ConfiguredAsAdmin(users[i])

\* The call that commits in this step.
Commits(c) == calls[c] # Idle /\ calls[c].pc = "commit" /\ calls'[c] # calls[c]

C38_Step ==
    \* a row that exists keeps its is_admin and permissions
    /\ \A i \in DOMAIN users :
          /\ i \in DOMAIN users'
          /\ users'[i].is_admin = users[i].is_admin
          /\ users'[i].permissions = users[i].permissions
    \* a row of create_or_update_user or pre_register_user starts with none
    /\ \A c \in Callers :
          (Commits(c) /\ calls[c].op \in {"create_or_update_user",
                                         "pre_register_user"}) =>
              \A i \in DOMAIN users' \ DOMAIN users :
                  /\ ~users'[i].is_admin
                  /\ users'[i].permissions = NoServices

\* C38: a users row has is_admin true only when backup_login created it
\* from an entry of BACKUP_USERS with is_admin true; the rows
\* create_or_update_user and pre_register_user create have is_admin false
\* and permissions {"services": []}; and no call changes is_admin or
\* permissions of a row that exists, a repeated backup login included.
C38_NoPrivilegeFromProviders ==
    []C38_AdminOnlyFromBackup /\ [][C38_Step]_vars

\* An administrator's backup row and a provider's row side by side, after a
\* successful backup login.
C38_Witness ==
    /\ \E i, j \in DOMAIN users :
          /\ users[i].is_admin /\ users[i].provider = "backup"
          /\ users[j].provider # "backup"
          /\ ~users[j].is_admin /\ users[j].permissions = NoServices
    /\ \E c \in Callers :
          /\ calls[c].op = "backup_login" /\ calls[c].pc = "done"
          /\ calls[c].status = 200
====
